---- MODULE Spec2Model ----
(***************************************************************************)
(* Model of the gym-register import pipeline of inventory-manager:         *)
(*   parseExcelToStructured (src/utils/excel-parser/parser.ts) and         *)
(*   writeMembersToFirestore / mergeMemberData (excel-parser/firestore.ts) *)
(*   as driven by the POST handler of app/api/import-register/route.ts.    *)
(*                                                                         *)
(* Strings are sequences of one-character strings, so that the regular     *)
(* expressions of the parser are computed, not tabulated.  A cell of the   *)
(* raw grid is a JavaScript number or a JavaScript string.                 *)
(***************************************************************************)
EXTENDS Integers, Sequences, FiniteSets, TLC

\* --------------------------------------------------------------------- state

VARIABLES
    facts,         \* what the parser's pure cell tests return for each cell
    tz,            \* the time zone of the server process
    pc,            \* where the POST handler is: "idle", "rows", "write", "done"
    imports,       \* number of uploads accepted so far
    rawRows,       \* the grid of the upload being processed
    ctx,           \* what parseExcelToStructured computes before its row loop
    r,             \* the row loop's index
    membersMap,    \* the members built so far, in insertion order
    attendance,    \* the attendance events emitted so far
    manualReview,  \* the manual-review items appended so far
    members,       \* the members output of the parse
    diagnostics,   \* the diagnostics output of the parse
    store,         \* the 'members' collection: document id -> document
    batch,         \* the writes of the open write batch
    i,             \* the write loop's index
    report,        \* the import report
    response,      \* what POST answered to the last upload: "none" while it runs
    prev,          \* the outputs of the previous upload and its grid
    probe,         \* a helper called on its own: its input and what it returned
    tempFile,      \* whether the temporary file of the upload exists
    log,           \* what console.error has printed
    rival          \* a second POST of the same file that writes at the same time

\* ------------------------------------------------------------------ bounds

\* Largest number of data rows of an uploaded grid.
MaxDataRows == 2

\* Number of uploads the endpoint serves in one behaviour.
MaxImports == 2

\* ------------------------------------------------------- characters, strings

Digit == {"0", "1", "2", "3", "4", "5", "6", "7", "8", "9"}

UC == <<"A","B","C","D","E","F","G","H","I","J","K","L","M",
        "N","O","P","Q","R","S","T","U","V","W","X","Y","Z">>

LC == <<"a","b","c","d","e","f","g","h","i","j","k","l","m",
        "n","o","p","q","r","s","t","u","v","w","x","y","z">>

UpperLetter == {UC[ix] : ix \in 1..26}

toUpperChar(c) == IF \E ix \in 1..26 : LC[ix] = c
                  THEN UC[CHOOSE ix \in 1..26 : LC[ix] = c] ELSE c

toLowerChar(c) == IF \E ix \in 1..26 : UC[ix] = c
                  THEN LC[CHOOSE ix \in 1..26 : UC[ix] = c] ELSE c

\* String.prototype.toUpperCase / toLowerCase
toUpperCase(s) == [ix \in 1..Len(s) |-> toUpperChar(s[ix])]

toLowerCase(s) == [ix \in 1..Len(s) |-> toLowerChar(s[ix])]

\* String.prototype.trim (the only white space of the model is the blank)
trim(s) ==
    LET nb == {ix \in 1..Len(s) : s[ix] # " "}
    IN  IF nb = {} THEN <<>>
        ELSE SubSeq(s, CHOOSE ix \in nb : \A j \in nb : ix <= j,
                       CHOOSE ix \in nb : \A j \in nb : ix >= j)

\* String.prototype.includes
includes(s, sub) ==
    \E ix \in 0..(Len(s) - Len(sub)) : SubSeq(s, ix + 1, ix + Len(sub)) = sub

\* s.replace(/\D/g, '')
digitsOf(s) == SelectSeq(s, LAMBDA c : c \in Digit)

\* s.replace(/\s+/g, '')
stripSpaces(s) == SelectSeq(s, LAMBDA c : c # " ")

DigitChar == <<"0", "1", "2", "3", "4", "5", "6", "7", "8", "9">>

\* String(n) of a non-negative integer (below 10^9)
NumToStr(n) ==
    LET k == CHOOSE k \in 1..9 : n < 10^k /\ (k = 1 \/ n >= 10^(k - 1))
    IN  [j \in 1..k |-> DigitChar[((n \div 10^(k - j)) % 10) + 1]]

DigitVal(c) == CHOOSE k \in 0..9 : DigitChar[k + 1] = c

\* parseInt(s, 10) of a string of at most 9 digits
StrToNum(s) ==
    LET d(j) == IF j <= Len(s) THEN DigitVal(s[Len(s) + 1 - j]) * 10^(j - 1) ELSE 0
    IN  d(1) + d(2) + d(3) + d(4) + d(5) + d(6) + d(7) + d(8) + d(9)

AllDigits(s) == \A ix \in 1..Len(s) : s[ix] \in Digit

\* ------------------------------------------------------------------- cells

\* A cell read by sheet_to_json: a number, or a string ('' for a blank cell).
Num(n) == [t |-> "num", n |-> n, s |-> <<>>]

Str(s) == [t |-> "str", n |-> 0, s |-> s]

Blank == Str(<<>>)

\* String(cell)
String(cell) == IF cell.t = "num" THEN NumToStr(cell.n) ELSE cell.s

\* JavaScript truthiness of a cell
Truthy(cell) == IF cell.t = "num" THEN cell.n # 0 ELSE cell.s # <<>>

\* row[c] of a ragged row: undefined beyond the row's length
HasCell(row, c) == c >= 0 /\ c < Len(row)

\* row[c] for a zero-based column index c inside the row
Cell(row, c) == row[c + 1]

NullCell == [t |-> "null", n |-> 0, s |-> <<>>]

\* ------------------------------------------------------------------- dates
\* An ISO date string 'yyyy-mm-dd' is the integer yyyy*10000 + mm*100 + dd, whose
\* numeric order is the string order; 0 stands for null.  Day numbers count days
\* from 1970-01-01.

DaysFromCivil(y0, m, d) ==
    LET y   == IF m <= 2 THEN y0 - 1 ELSE y0
        era == y \div 400
        yoe == y - era * 400
        mp  == IF m > 2 THEN m - 3 ELSE m + 9
        doy == (153 * mp + 2) \div 5 + d - 1
        doe == yoe * 365 + yoe \div 4 - yoe \div 100 + doy
    IN  era * 146097 + doe - 719468

\* the civil date of a day number, from the day of the 400-year era down
CivilOfMonth(era, yoe, d, m) ==
    [y |-> yoe + era * 400 + (IF m <= 2 THEN 1 ELSE 0), m |-> m, d |-> d]

CivilOfMp(era, yoe, doy, mp) ==
    CivilOfMonth(era, yoe, doy - (153 * mp + 2) \div 5 + 1, IF mp < 10 THEN mp + 3 ELSE mp - 9)

CivilOfDoy(era, yoe, doy) == CivilOfMp(era, yoe, doy, (5 * doy + 2) \div 153)

CivilOfYoe(era, doe, yoe) ==
    CivilOfDoy(era, yoe, doe - (365 * yoe + yoe \div 4 - yoe \div 100))

CivilOfDoe(era, doe) ==
    CivilOfYoe(era, doe, (doe - doe \div 1460 + doe \div 36524 - doe \div 146096) \div 365)

CivilFromDays(z0) == CivilOfDoe((z0 + 719468) \div 146097, (z0 + 719468) % 146097)

IsoOfCivil(c) == c.y * 10000 + c.m * 100 + c.d

\* toISOString().slice(0, 10) of the UTC day with that day number
IsoOfDay(z) == IsoOfCivil(CivilFromDays(z))

\* the time zones a run can be in: local time equal to, ahead of or behind UTC
TimeZones == {"UTC", "East", "West"}

\* new Date(y, m - 1, d).toISOString().slice(0, 10): local midnight, printed in
\* UTC, is the day before wherever local time is ahead of UTC.
LocalIso(z, zone) == IsoOfDay(IF zone = "East" THEN z - 1 ELSE z)

\* XLSX.SSF.parse_date_code(n) followed by new Date(d.y, d.m - 1, d.d), as a day
\* number: serial 1 is 1900-01-01 and serial 60 the 1900-02-29 that never was.
SerialDay(n) == IF n = 60 THEN DaysFromCivil(1900, 3, 1)
                ELSE IF n > 60 THEN n - 25569
                ELSE n - 25568

\* the maximal runs of characters of class K in s, each with its start position
Runs(s, K) ==
    LET starts == {j \in 1..Len(s) : s[j] \in K /\ (j = 1 \/ s[j - 1] \notin K)}
        end(j) == CHOOSE e \in j..Len(s) :
                     /\ \A k \in j..e : s[k] \in K
                     /\ (e = Len(s) \/ s[e + 1] \notin K)
    IN  [n \in 1..Cardinality(starts) |->
            LET j == CHOOSE j \in starts : Cardinality({q \in starts : q < j}) = n - 1
            IN  [at |-> j, text |-> SubSeq(s, j, end(j))]]

Letter == UpperLetter \cup {LC[ix] : ix \in 1..26}

MonthPrefix == << <<"j","a","n">>, <<"f","e","b">>, <<"m","a","r">>, <<"a","p","r">>,
                  <<"m","a","y">>, <<"j","u","n">>, <<"j","u","l">>, <<"a","u","g">>,
                  <<"s","e","p">>, <<"o","c","t">>, <<"n","o","v">>, <<"d","e","c">> >>

\* the month a word names for the engine's date parser (its first three letters), or 0
NamedMonth(w) ==
    IF Len(w) >= 3 /\ \E k \in 1..12 : MonthPrefix[k] = toLowerCase(SubSeq(w, 1, 3))
    THEN CHOOSE k \in 1..12 : MonthPrefix[k] = toLowerCase(SubSeq(w, 1, 3))
    ELSE 0

\* the value of a numeral read by the engine's date parser (9 significant digits)
Numeral(ds) == StrToNum(SubSeq(ds, 1, IF Len(ds) > 9 THEN 9 ELSE Len(ds)))

IsIsoDate(s) ==
    /\ Len(s) = 10 /\ s[5] = "-" /\ s[8] = "-"
    /\ \A ix \in {1, 2, 3, 4, 6, 7, 9, 10} : s[ix] \in Digit

InvalidDate == [ok |-> FALSE, day |-> 0, local |-> FALSE]

\* an ISO date string: UTC midnight; a day up to 31 of a shorter month rolls over
IsoFormDate(y, m, d) ==
    IF m >= 1 /\ m <= 12 /\ d >= 1 /\ d <= 31
    THEN [ok |-> TRUE, day |-> DaysFromCivil(y, m, 1) + d - 1, local |-> FALSE]
    ELSE InvalidDate

\* a two-digit year is of this century up to 49 and of the last from 50
LegacyYear(y) == IF y <= 49 THEN y + 2000 ELSE IF y <= 99 THEN y + 1900 ELSE y

IsDayNumber(n) == n >= 1 /\ n <= 31

\* the legacy parser's date of year, month and day: local midnight
LegacyDate(year, m, d) ==
    IF m < 1 \/ m > 12 \/ ~IsDayNumber(d) \/ year > 275760 THEN InvalidDate
    ELSE [ok |-> TRUE, day |-> DaysFromCivil(year, m, 1) + d - 1, local |-> TRUE]

\* the legacy parser on the numbers c (missing ones are 1) and the named month
\* (0 for none): month/day/year if the first number is a day, else year first
LegacyOrder(c, month) ==
    IF month = 0
    THEN IF ~IsDayNumber(c[1]) THEN LegacyDate(LegacyYear(c[1]), c[2], c[3])
         ELSE LegacyDate(LegacyYear(c[3]), c[1], c[2])
    ELSE IF ~IsDayNumber(c[1]) THEN LegacyDate(LegacyYear(c[1]), month, c[2])
         ELSE LegacyDate(LegacyYear(c[2]), month, c[1])

\* the legacy parser on the digit runs and the words of s: a word that is no
\* month name after the first number, a '+' after it, or a '-' not straight
\* after a digit, make the date invalid
LegacyParse(s, nums, words, firstNum) ==
    IF \/ nums = <<>> \/ Len(nums) > 3
       \/ \E k \in 1..Len(words) : words[k].at > firstNum /\ NamedMonth(words[k].text) = 0
       \/ \E k \in 1..Len(s) :
             /\ k > firstNum
             /\ \/ s[k] = "+"
                \/ s[k] = "-" /\ s[k - 1] \notin Digit
    THEN InvalidDate
    ELSE LegacyOrder([k \in 1..3 |-> IF k <= Len(nums) THEN Numeral(nums[k].text) ELSE 1],
                     IF \E k \in 1..Len(words) : NamedMonth(words[k].text) # 0
                     THEN NamedMonth(words[CHOOSE k \in 1..Len(words) :
                                              /\ NamedMonth(words[k].text) # 0
                                              /\ \A j \in 1..(k - 1) :
                                                    NamedMonth(words[j].text) = 0].text)
                     ELSE 0)

LegacyRuns(s, nums, words) ==
    LegacyParse(s, nums, words, IF nums = <<>> THEN Len(s) + 1 ELSE nums[1].at)

\* new Date(s) of the JavaScript engine (V8): the day number and whether it is a
\* UTC or a local-time midnight; ok = FALSE for an Invalid Date.
NewDate(s) ==
    IF IsIsoDate(s)
    THEN IsoFormDate(StrToNum(SubSeq(s, 1, 4)), StrToNum(SubSeq(s, 6, 7)),
                     StrToNum(SubSeq(s, 9, 10)))
    ELSE IF Len(s) = 4 /\ AllDigits(s)
    THEN [ok |-> TRUE, day |-> DaysFromCivil(StrToNum(s), 1, 1), local |-> FALSE]
    ELSE LegacyRuns(s, Runs(s, Digit), Runs(s, Letter))

\* /^(\d{2})\/(\d{2})\/(\d{4})$/ and /^(\d{2})-(\d{2})-(\d{4})$/
IsDmy(s, sep) ==
    /\ Len(s) = 10 /\ s[3] = sep /\ s[6] = sep
    /\ \A ix \in {1, 2, 4, 5, 7, 8, 9, 10} : s[ix] \in Digit

\* toISOString().slice(0, 10) of a parsed date
IsoOfDate(parsed, zone) ==
    IF parsed.local THEN LocalIso(parsed.day, zone) ELSE IsoOfDay(parsed.day)

\* the patterns tried when new Date(s) is invalid: dd/mm/yyyy and dd-mm-yyyy are
\* rewritten to yyyy-mm-dd (a yyyy-mm-dd that new Date refused is refused again)
PatternDate(s, again) ==
    IF (IsDmy(s, "/") \/ IsDmy(s, "-")) /\ again.ok THEN IsoOfDay(again.day) ELSE 0

ParsedDate(s, parsed, zone) ==
    IF s = <<>> \/ toLowerCase(s)[1] = "x" THEN 0
    ELSE IF parsed.ok THEN IsoOfDate(parsed, zone)
    ELSE PatternDate(s, NewDate(SubSeq(s, 7, 10) \o <<"-">> \o SubSeq(s, 4, 5)
                                  \o <<"-">> \o SubSeq(s, 1, 2)))

TextDate(s, zone) == ParsedDate(s, NewDate(s), zone)

\* tryParseDate(cell): an ISO date, or 0 for null
tryParseDate(cell, zone) ==
    IF cell.t = "null" THEN 0
    ELSE IF cell.t = "num" /\ cell.n <= 2958465
    THEN LocalIso(SerialDay(cell.n), zone)
    ELSE TextDate(trim(String(cell)), zone)

\* d.slice(0, 7): the 'yyyy-mm' of an ISO date, as yyyy*100 + mm
MonthOf(d) == d \div 100


\* ------------------------------------------------------- cell interpreter

\* normalizeMobile of parseExcel: the country prefix dropped, then the last ten
\* digits kept; the digit string, or <<>> for null
normalizeMobileOfParseExcel(s) ==
    LET digits == digitsOf(s)
        local  == IF Len(digits) > 10 /\ SubSeq(digits, 1, 2) = <<"9", "1">>
                  THEN SubSeq(digits, 3, Len(digits)) ELSE digits
        last   == IF Len(local) > 10 THEN SubSeq(local, Len(local) - 9, Len(local)) ELSE local
    IN  IF s = <<>> THEN <<>> ELSE IF Len(last) >= 8 THEN last ELSE <<>>

\* normalizeMobile of parseExcelToStructured: the digit string, or <<>> for null
normalizeMobile(cell) ==
    IF cell.t = "null" THEN <<>>
    ELSE LET digits == digitsOf(String(cell))
         IN  IF Len(digits) > 10 /\ SubSeq(digits, 1, 2) = <<"9", "1">>
             THEN SubSeq(digits, Len(digits) - 9, Len(digits))
             ELSE IF Len(digits) = 10 THEN digits
             ELSE IF Len(digits) >= 8 THEN digits
             ELSE <<>>

PlanDigits == {<<"1">>, <<"3">>, <<"6">>, <<"1", "2">>}

PlanSuffix == {<<>>, <<"M">>, <<"M","O","N","T","H">>, <<"M","O","N","T","H","S">>,
               <<"M","T","H">>, <<"M","T","H","S">>}

\* planTokenRegex.test(s): /^\s*(1|3|6|12)\s*(?:M|MONTHS?|MTHS?)?\s*$/i
planTokenRegex(s) ==
    LET u == toUpperCase(trim(s))
    IN  \E p \in PlanDigits :
           /\ Len(u) >= Len(p)
           /\ SubSeq(u, 1, Len(p)) = p
           /\ trim(SubSeq(u, Len(p) + 1, Len(u))) \in PlanSuffix

\* mapPlanRaw(pr): planType ("null" for null) and planMonths (0 for null).  The
\* MONTHS?|MTHS? -> M rewriting touches letters only; the digits decide.
mapPlanRaw(pr) ==
    LET digits == digitsOf(stripSpaces(toUpperCase(pr)))
    IN  IF pr = <<>> THEN [planType |-> "null", planMonths |-> 0]
        ELSE IF digits = <<"1">> THEN [planType |-> "Monthly", planMonths |-> 1]
        ELSE IF digits = <<"3">> THEN [planType |-> "Quarterly", planMonths |-> 3]
        ELSE IF digits = <<"6">> THEN [planType |-> "Half-Yearly", planMonths |-> 6]
        ELSE IF digits = <<"1", "2">> THEN [planType |-> "Yearly", planMonths |-> 12]
        ELSE [planType |-> "null", planMonths |-> 0]

MONTHS == << <<"j","a","n","u","a","r","y">>, <<"f","e","b","r","u","a","r","y">>,
             <<"m","a","r","c","h">>, <<"a","p","r","i","l">>, <<"m","a","y">>,
             <<"j","u","n","e">>, <<"j","u","l","y">>, <<"a","u","g","u","s","t">>,
             <<"s","e","p","t","e","m","b","e","r">>, <<"o","c","t","o","b","e","r">>,
             <<"n","o","v","e","m","b","e","r">>, <<"d","e","c","e","m","b","e","r">> >>

\* the first month of MONTHS the cell's text includes, or 0
MonthInCell(cell) ==
    LET s == toLowerCase(String(cell))
        hit == {m \in 1..12 : includes(s, MONTHS[m])}
    IN  IF hit = {} THEN 0 ELSE CHOOSE m \in hit : \A k \in hit : m <= k

headerKeywords == {<<"N","A","M","E">>, <<"C","O","N","T","A","C","T">>, <<"D","A","T","E">>,
                   <<"M","O","N","T","H","S">>, <<"S","R"," ","N","O">>}

\* isLikelyUpperName(cell): /^[A-Z .\-]{2,200}$/ on the trimmed text
isLikelyUpperName(cell) ==
    LET s == trim(String(cell))
    IN  /\ Len(s) >= 2 /\ Len(s) <= 200
        /\ \A ix \in 1..Len(s) : s[ix] \in UpperLetter \cup {" ", ".", "-"}

\* String(cell).match(/\d/)
HasDigit(cell) == \E ix \in 1..Len(String(cell)) : String(cell)[ix] \in Digit

\* String(cell).match(/\d{6,13}/): a run of at least six digits
HasDigitRun(cell) ==
    LET s == String(cell)
    IN  \E ix \in 1..(Len(s) - 5) : \A k \in ix..(ix + 5) : s[k] \in Digit

\* the least element of a non-empty set of integers
Min(S) == CHOOSE x \in S : \A y \in S : x <= y

Max(S) == CHOOSE x \in S : \A y \in S : x >= y

\* Array.from(new Set(xs)).sort() of ISO dates: ascending, without duplicates
SortSet(S) ==
    [n \in 1..Cardinality(S) |-> CHOOSE x \in S : Cardinality({y \in S : y < x}) = n - 1]

Range(f) == {f[ix] : ix \in DOMAIN f}


\* cell.match(/(19|20)\d{2}/): the first such four digits as a number, or 0
YearMatch(s) ==
    LET hit == {ix \in 1..(Len(s) - 3) :
                   /\ SubSeq(s, ix, ix + 1) \in {<<"1", "9">>, <<"2", "0">>}
                   /\ s[ix + 2] \in Digit /\ s[ix + 3] \in Digit}
    IN  IF hit = {} THEN 0 ELSE StrToNum(SubSeq(s, Min(hit), Min(hit) + 3))

\* the cell is the attendance mark: String(cellValue).trim().toUpperCase() === 'P'
IsPresent(cell) == toUpperCase(trim(String(cell))) = <<"P">>

\* ------------------------------------------------------------ uploaded grids

MarkerRow == <<Str(<<"F","E","B","R","U","A","R","Y"," ","2","0","2","3">>)>>

HeaderRow == <<Str(<<"S","R"," ","N","O",".">>), Str(<<"M","E","M","B","E","R"," ","N","A","M","E">>), Str(<<"C","O","N","T","A","C","T">>), Str(<<"S","T","A","R","T"," ","D","A","T","E">>),
               Str(<<"N","O","."," ","O","F"," ","M","O","N","T","H","S">>), Str(<<"0","1","/","0","2","/","2","0","2","3">>), Str(<<"0","2","/","0","2","/","2","0","2","3">>)>>

JohnRow == <<Num(1), Str(<<"J","O","H","N"," ","D","O","E">>), Str(<<"9","8","7","6","5","4","3","2","1","0">>), Num(44957), Str(<<"3","M">>), Str(<<"P">>), Blank>>

JaneRow == <<Num(2), Str(<<"J","A","N","E"," ","S","M","I","T","H">>), Str(<<"1","2","3","4","5","6","7","8","9","0">>), Num(44958), Str(<<"1","M">>), Str(<<"P">>), Blank>>

NoMobileRow == <<Blank, Str(<<"N","O"," ","M","O","B","I","L","E">>), Blank, Blank, Str(<<"6","M">>), Blank, Blank>>

\* the person of JohnRow again: prefixed mobile, other spelling, other date
JohnAgainRow == <<Blank, Str(<<"J"," ","D","O","E">>), Str(<<"+","9","1"," ","9","8","7","6","5"," ","4","3","2","1","0">>), Str(<<"1","5","/","0","2","/","2","0","2","3">>), Str(<<"1"," ","m","o","n","t","h">>), Blank, Str(<<"p">>)>>

\* an attendance mark and nothing else
MarkOnlyRow == <<Blank, Blank, Blank, Blank, Blank, Blank, Str(<<"P">>)>>

\* a seven-digit mobile and a placeholder plan
ShortMobileRow == <<Blank, Str(<<"A","N","N"," ","L","E","E">>), Str(<<"1","2","3","4","5","6","7">>), Blank, Str(<<"X","X">>), Str(<<"P">>), Blank>>

\* a name that is not upper case, and nothing else
LowerNameRow == <<Blank, Str(<<"a","n","n">>), Blank, Blank, Blank, Blank, Blank>>

BlankRow == <<Blank, Blank, Blank, Blank, Blank, Blank, Blank>>

\* a section marker without a year that also carries a name, a mobile, a plan
\* and an attendance mark
MarchRow == <<Str(<<"M","A","R","C","H">>), Str(<<"R","A","V","I"," ","K">>), Str(<<"9","1","2","3","4","5","6","7","8","0">>), Blank, Str(<<"3","M">>), Str(<<"P">>), Blank>>

\* plan tokens in column 4 and in column 5
TwoPlansRow == <<Blank, Str(<<"O","M"," ","P">>), Str(<<"9","0","0","0","0","0","0","0","0","5">>), Blank, Str(<<"1","M">>), Str(<<"6","M">>), Str(<<"P">>)>>

\* the person of JohnRow once more: a start-date cell that is no date, no plan
JohnBareRow == <<Blank, Str(<<"J","O","H","N"," ","D","O","E">>), Str(<<"9","8","7","6","5","4","3","2","1","0">>), Str(<<"T","B","D">>), Blank, Blank, Str(<<"P">>)>>

\* a row of a register that keeps the joining date in column 1
DatedRow == <<Blank, Str(<<"2","0","2","4","-","0","3","-","0","5">>), Str(<<"M","E","E","R","A"," ","N">>), Str(<<"9","5","5","5","5","0","0","0","0","1">>), Str(<<"1","M">>)>>

DataRows == {JohnRow, JaneRow, NoMobileRow, JohnAgainRow, MarkOnlyRow, ShortMobileRow,
             LowerNameRow, BlankRow, MarchRow, TwoPlansRow, JohnBareRow}

\* what precedes the data rows: a section marker and the column headers, the
\* column headers alone, or nothing
Prefixes == {<<MarkerRow, HeaderRow>>, <<HeaderRow>>, <<>>}

\* the sequences over S of length at most n
SeqsUpTo(S, n) == UNION {[1..k -> S] : k \in 0..n}

Grids == {p \o d : p \in Prefixes, d \in SeqsUpTo(DataRows, MaxDataRows)}


\* ---------------------------------------------------------- cells of a run

\* every cell an uploaded grid can hold, and null
Cells == {NullCell} \cup UNION {Range(row) : row \in DataRows \cup {MarkerRow, HeaderRow, DatedRow}}

\* what the parser's tests and conversions make of each cell: they are pure, so
\* the table is drawn up once and read by every step
CellFacts ==
    [cell \in Cells |->
        [text |-> IF cell.t = "null" THEN <<>> ELSE trim(String(cell)),
         date |-> [z \in TimeZones |-> tryParseDate(cell, z)],
         mobile |-> normalizeMobile(cell),
         planToken |-> cell.t # "null" /\ planTokenRegex(trim(String(cell))),
         month |-> IF cell.t = "null" THEN 0 ELSE MonthInCell(cell),
         year |-> IF cell.t = "str" THEN YearMatch(cell.s) ELSE 0,
         keyword |-> cell.t = "str"
                     /\ \E k \in headerKeywords : includes(toUpperCase(cell.s), k),
         upperName |-> cell.t # "null" /\ isLikelyUpperName(cell),
         digit |-> cell.t # "null" /\ HasDigit(cell),
         digitRun |-> cell.t # "null" /\ HasDigitRun(cell),
         present |-> cell.t # "null" /\ IsPresent(cell)]]

\* the tests and conversions of a cell, read from the table
F(cell) == facts[cell]

\* ------------------------------------------------- header & section detector

\* detectMonthHeaderInRow(row): the month (1..12) of the first cell that names
\* one, or 0 for null
MonthOfRow(row) ==
    LET hit == {c \in 1..Len(row) : F(row[c]).month # 0}
    IN  IF hit = {} THEN 0 ELSE F(row[Min(hit)]).month

\* isColumnHeaderRow(row): at least 3 string cells hold a header keyword
IsHeaderRow(row) == Cardinality({c \in 1..Len(row) : F(row[c]).keyword}) >= 3


\* new Date().getFullYear() of the run
CurrentYear == 2026

\* rawRows[r] for a zero-based row index r
Row(rows, rw) == rows[rw + 1]

\* headerCandidates: the zero-based indices of the rows naming a month
headerCandidates(rows) ==
    SortSet({rw \in 0..(Len(rows) - 1) : MonthOfRow(Row(rows, rw)) # 0})

\* the year of the first string cell of the marker row that carries one, or 0
YearInRow(row) ==
    LET hit == {c \in 1..Len(row) : F(row[c]).year # 0}
    IN  IF hit = {} THEN 0 ELSE F(row[Min(hit)]).year

\* the last row of the 30-row look-ahead window below the marker at idx
WindowEnd(rows, idx) == IF idx + 30 < Len(rows) - 1 THEN idx + 30 ELSE Len(rows) - 1

\* the year of the first parseable date of column 1 in the window, or 0
YearInColumnB(rows, idx, zone) ==
    LET hit == {rw \in (idx + 1)..WindowEnd(rows, idx) :
                   /\ HasCell(Row(rows, rw), 1)
                   /\ F(Cell(Row(rows, rw), 1)).date[zone] # 0}
    IN  IF hit = {} THEN 0
        ELSE F(Cell(Row(rows, Min(hit)), 1)).date[zone] \div 10000

\* the year of the first parseable date of any column in the window, or 0
YearInWindow(rows, idx, zone) ==
    LET dated(rw) == {c \in 1..Len(Row(rows, rw)) : F(Row(rows, rw)[c]).date[zone] # 0}
        hit == {rw \in (idx + 1)..WindowEnd(rows, idx) : dated(rw) # {}}
    IN  IF hit = {} THEN 0
        ELSE F(Row(rows, Min(hit))[Min(dated(Min(hit)))]).date[zone] \div 10000

\* inferredYear as it would be if column 1 were not searched before the other
\* columns
inferredYearAnyColumn(rows, h, idx, prevYear, zone) ==
    IF YearInRow(Row(rows, idx)) # 0 THEN YearInRow(Row(rows, idx))
    ELSE IF YearInWindow(rows, idx, zone) # 0 THEN YearInWindow(rows, idx, zone)
    ELSE IF h = 0 /\ idx = 1 THEN 2023
    ELSE IF prevYear # 0 THEN prevYear
    ELSE CurrentYear

\* the year inferred for the h-th (zero-based) marker, found at row idx
inferredYear(rows, h, idx, prevYear, zone) ==
    IF YearInRow(Row(rows, idx)) # 0 THEN YearInRow(Row(rows, idx))
    ELSE IF YearInColumnB(rows, idx, zone) # 0 THEN YearInColumnB(rows, idx, zone)
    ELSE IF YearInWindow(rows, idx, zone) # 0 THEN YearInWindow(rows, idx, zone)
    ELSE IF h = 0 /\ idx = 1 THEN 2023
    ELSE IF prevYear # 0 THEN prevYear
    ELSE CurrentYear

RECURSIVE YearsFrom(_, _, _, _, _)
YearsFrom(rows, cands, h, prevYear, zone) ==
    IF h >= Len(cands) THEN <<>>
    ELSE LET idx == cands[h + 1]
             y   == inferredYear(rows, h, idx, prevYear, zone)
         IN  <<[row_idx |-> idx, month |-> MonthOfRow(Row(rows, idx)), year |-> y]>>
             \o YearsFrom(rows, cands, h + 1, y, zone)

\* headersWithYear: one {row_idx, month, year} per section marker, in row order
headersWithYear(rows, zone) == YearsFrom(rows, headerCandidates(rows), 0, 0, zone)

\* importMonth 'UNKNOWN' is month 0 of year 0; importMonthISO '' is 0, 'yyyy-mm'
\* is yyyy*100 + mm
UNKNOWN == [importMonth |-> [month |-> 0, year |-> 0], importMonthISO |-> 0]

\* ContextOf as it would be if the month number were the index of the name in
\* MONTHS
ContextOfIndex(header) ==
    [importMonth |-> [month |-> header.month, year |-> header.year],
     importMonthISO |-> header.year * 100 + header.month - 1]

\* the context of marker hi: importMonth `${mm}-${yyyy}` and importMonthISO
ContextOf(header) ==
    [importMonth |-> [month |-> header.month, year |-> header.year],
     importMonthISO |-> header.year * 100 + header.month]

\* rowToImport as it would be if every row after the first marker were taken
\* into its section
rowsToFirstSection(rows, hdrs) ==
    [rw \in 0..(Len(rows) - 1) |->
        IF hdrs = <<>> \/ rw <= hdrs[1].row_idx THEN UNKNOWN ELSE ContextOf(hdrs[1])]

\* rowToImport: the import context of every row index of the grid
rowToImport(rows, hdrs) ==
    LET end(hi) == IF hi + 1 <= Len(hdrs) - 1 THEN hdrs[hi + 2].row_idx - 1
                   ELSE Len(rows) - 1
        owner(rw) == {hi \in 0..(Len(hdrs) - 1) :
                        hdrs[hi + 1].row_idx + 1 <= rw /\ rw <= end(hi)}
        known(rw) == {q \in 0..rw : owner(q) # {}}
    IN  [rw \in 0..(Len(rows) - 1) |->
            IF known(rw) = {} THEN UNKNOWN
            ELSE ContextOf(hdrs[Max(owner(Max(known(rw)))) + 1])]

\* --------------------------------------------------- column role inference

colsCount(rows) == Max({0} \cup {Len(rows[rw]) : rw \in 1..Len(rows)})

\* colCounts before sorting: the number of plan tokens of every column
planCount(rows, c) ==
    Cardinality({rw \in 1..Len(rows) :
                    HasCell(rows[rw], c) /\ F(Cell(rows[rw], c)).planToken})

\* bestPlanCol as it would be if the column with the most plan tokens were
\* always taken
BestByCount(rows) ==
    LET cols == 0..(colsCount(rows) - 1)
        top  == {c \in cols : \A k \in cols : planCount(rows, c) >= planCount(rows, k)}
    IN  IF cols # {} /\ planCount(rows, Min(top)) >= 1 THEN Min(top) ELSE -1

\* bestPlanCol: column 5 if it holds a plan token, else the first column with the
\* highest count if that count is at least 1, else -1 for null
bestPlanCol(rows) ==
    LET cols == 0..(colsCount(rows) - 1)
        top  == {c \in cols : \A k \in cols : planCount(rows, c) >= planCount(rows, k)}
    IN  IF 5 \in cols /\ planCount(rows, 5) >= 1 THEN 5
        ELSE IF cols # {} /\ planCount(rows, Min(top)) >= 1 THEN Min(top)
        ELSE -1

\* columnHeaderRowIndex: the first row that is a column-header row, or -1
columnHeaderRowIndex(rows) ==
    LET hit == {rw \in 0..(Len(rows) - 1) : IsHeaderRow(Row(rows, rw))}
    IN  IF hit = {} THEN -1 ELSE Min(hit)

\* attendanceDateColumns: {colIndex, date} for every cell of the column-header
\* row that parses as a date, in column order
attendanceDateColumns(rows, zone) ==
    IF columnHeaderRowIndex(rows) = -1 THEN <<>>
    ELSE LET row == Row(rows, columnHeaderRowIndex(rows))
             cols == SortSet({c \in 0..(Len(row) - 1) : F(Cell(row, c)).date[zone] # 0})
         IN  [k \in 1..Len(cols) |->
                 [colIndex |-> cols[k], date |-> F(Cell(row, cols[k])).date[zone]]]


\* ------------------------------------------------------------ row extractor

\* name: column 1 if it looks like an upper-case name, else the first such cell
\* of the first 10 columns, else <<>> for null
NameOf(row) ==
    LET hit == {c \in 0..(Min({10, Len(row)}) - 1) : F(Cell(row, c)).upperName}
    IN  IF Len(row) > 1 /\ F(Cell(row, 1)).upperName THEN F(Cell(row, 1)).text
        ELSE IF hit # {} THEN F(Cell(row, Min(hit))).text
        ELSE <<>>

\* mobileCandidate: column 2 if it holds a digit, else the first cell of the first
\* 12 columns with a run of six digits, else null
MobileCandidateOf(row) ==
    LET hit == {c \in 0..(Min({12, Len(row)}) - 1) : F(Cell(row, c)).digitRun}
    IN  IF Len(row) > 2 /\ F(Cell(row, 2)).digit /\ Truthy(Cell(row, 2)) THEN Cell(row, 2)
        ELSE IF hit # {} THEN Cell(row, Min(hit))
        ELSE NullCell

\* planRaw: the plan token of the detected plan column, else the first plan token
\* of columns 2..7, else <<>> for null
PlanRawOf(row, bestCol) ==
    LET hit == {c \in 2..(Min({8, Len(row)}) - 1) : F(Cell(row, c)).planToken}
    IN  IF /\ bestCol # -1 /\ bestCol < Len(row)
           /\ F(Cell(row, bestCol)).text # <<>>
           /\ F(Cell(row, bestCol)).planToken
        THEN F(Cell(row, bestCol)).text
        ELSE IF hit # {} THEN F(Cell(row, Min(hit))).text
        ELSE <<>>

\* startDate: the first cell of the first 6 columns that parses as a date, or 0
StartDateOf(row, zone) ==
    LET hit == {c \in 0..(Min({6, Len(row)}) - 1) : F(Cell(row, c)).date[zone] # 0}
    IN  IF hit = {} THEN 0 ELSE F(Cell(row, Min(hit))).date[zone]

\* attDates: the dates of the attendance columns marked 'P', in column order
AttDatesOf(row, attCols) ==
    LET marked == SelectSeq(attCols, LAMBDA a :
                     HasCell(row, a.colIndex) /\ F(Cell(row, a.colIndex)).present)
    IN  [k \in 1..Len(marked) |-> marked[k].date]

\* IsSkippedRow as it would be if only the column-header row were passed over
SkipsHeaderOnly(rows, rw, headerIdx) == rw = headerIdx

\* the row is consumed without output: the column-header row, a section marker,
\* or a row of blank cells
IsSkippedRow(rows, rw, headerIdx) ==
    \/ rw = headerIdx
    \/ MonthOfRow(Row(rows, rw)) # 0
    \/ \A c \in 1..Len(Row(rows, rw)) : F(Row(rows, rw)[c]).text = <<>>



vars == <<facts, tz, pc, imports, rawRows, ctx, r, membersMap, attendance, manualReview,
          members, diagnostics, store, batch, i, report, response, prev, probe,
          tempFile, log, rival>>

NA == <<"N", "A">>

\* the identifiers uuidv4() can return
UUIDS == {<<"u">> \o NumToStr(k) : k \in 1..(MaxDataRows + 1)}

\* a key that JavaScript objects enumerate as an array index: a canonical
\* decimal numeral below 2^32 - 1
IsArrayIndex(id) ==
    /\ id # <<>> /\ AllDigits(id) /\ Len(id) <= 10
    /\ (id = <<"0">> \/ id[1] # "0")
    /\ \/ Len(id) < 10
       \/ Numeral(id) < 429496729
       \/ Numeral(id) = 429496729 /\ DigitVal(id[10]) <= 4

\* numeric order of two array-index keys
IndexLess(a, b) ==
    \/ Len(a) < Len(b)
    \/ /\ Len(a) = Len(b)
       /\ \/ Numeral(a) < Numeral(b)
          \/ Numeral(a) = Numeral(b) /\ Len(a) = 10 /\ DigitVal(a[10]) < DigitVal(b[10])

\* Object.keys(membersMap): array-index keys in ascending numeric order, then
\* the other keys in insertion order; as positions of membersMap
ObjectKeys(mm) ==
    LET idx  == {k \in 1..Len(mm) : IsArrayIndex(mm[k].id)}
        rank(k) == Cardinality({j \in idx : IndexLess(mm[j].id, mm[k].id)}) + 1
        rest == SelectSeq([k \in 1..Len(mm) |-> k], LAMBDA k : k \notin idx)
    IN  [n \in 1..Len(mm) |->
            IF n <= Cardinality(idx) THEN CHOOSE k \in idx : rank(k) = n
            ELSE rest[n - Cardinality(idx)]]

\* Lookup as it would be if membersMap[memberId] were never found
LookupNone(mm, id) == 0

\* the position in membersMap of the member with that id, or 0
Lookup(mm, id) ==
    IF \E k \in 1..Len(mm) : mm[k].id = id
    THEN CHOOSE k \in 1..Len(mm) : mm[k].id = id ELSE 0

\* what the row loop extracts from row q of the grid
Extract(rows, c, q, zone) ==
    LET row == Row(rows, q)
        cand == MobileCandidateOf(row)
        planRaw == PlanRawOf(row, c.bestPlanCol)
    IN  [name |-> NameOf(row),
         mobileCandidate |-> cand,
         mobileNormalized |-> F(cand).mobile,
         planRaw |-> planRaw,
         mapped |-> mapPlanRaw(planRaw),
         startDate |-> StartDateOf(row, zone),
         attDates |-> AttDatesOf(row, c.attendanceDateColumns),
         context |-> c.rowToImport[q]]

\* IsEmptyExtract as it would be if every row without a name were dropped
DropsNameless(x) == x.name = <<>>

\* the row yields nothing: no name, no normalized mobile and no attendance mark
IsEmptyExtract(x) == x.name = <<>> /\ x.mobileNormalized = <<>> /\ x.attDates = <<>>

\* the member a row creates under memberId
NewMember(x, memberId) ==
    [id |-> memberId,
     name |-> x.name,
     mobile |-> IF Truthy(x.mobileCandidate) THEN String(x.mobileCandidate) ELSE NA,
     mobileNormalized |-> IF x.mobileNormalized # <<>> THEN x.mobileNormalized ELSE NA,
     planRaw |-> x.planRaw,
     planType |-> x.mapped.planType,
     planMonths |-> x.mapped.planMonths,
     startDate |-> x.startDate,
     attendance |-> SortSet(Range(x.attDates)),
     attendedMonths |-> SortSet({MonthOf(d) : d \in Range(x.attDates)}),
     lastAttendance |-> IF x.attDates # <<>> THEN Max(Range(x.attDates)) ELSE 0,
     importMonth |-> x.context.importMonth,
     importMonthISO |-> x.context.importMonthISO]

\* MergeRow as it would be if the dates of a further row were appended to the
\* attendance as they come
MergeRowAppends(ex, x) ==
    [ex EXCEPT
       !.attendance = @ \o x.attDates,
       !.attendedMonths = @ \o [k \in 1..Len(x.attDates) |-> MonthOf(x.attDates[k])]]

\* MergeRow as it would be if a further row replaced the attendance of the
\* member instead of being united with it
MergeRowLastWins(ex, x) ==
    [ex EXCEPT
       !.attendance = SortSet(Range(x.attDates)),
       !.attendedMonths = SortSet({MonthOf(d) : d \in Range(x.attDates)})]

\* MergeRow as it would be if the start date and the plan of a further row
\* replaced those of the member
MergeRowOverwrites(ex, x) ==
    [ex EXCEPT
       !.attendance = SortSet(Range(ex.attendance) \cup Range(x.attDates)),
       !.attendedMonths = SortSet(Range(ex.attendedMonths)
                                    \cup {MonthOf(d) : d \in Range(x.attDates)}),
       !.startDate = x.startDate,
       !.planRaw = x.planRaw,
       !.planType = x.mapped.planType,
       !.planMonths = x.mapped.planMonths]

\* the existing member ex after a further row of the same id
MergeRow(ex, x) ==
    LET plan == ex.planRaw = <<>> /\ x.planRaw # <<>>
    IN  [ex EXCEPT
           !.attendance = SortSet(Range(ex.attendance) \cup Range(x.attDates)),
           !.attendedMonths = SortSet(Range(ex.attendedMonths)
                                        \cup {MonthOf(d) : d \in Range(x.attDates)}),
           !.startDate = IF ex.startDate = 0 /\ x.startDate # 0 THEN x.startDate ELSE @,
           !.planRaw = IF plan THEN x.planRaw ELSE @,
           !.planType = IF plan THEN mapPlanRaw(x.planRaw).planType ELSE @,
           !.planMonths = IF plan THEN mapPlanRaw(x.planRaw).planMonths ELSE @]

\* Filed as it would be if a row without a normalized mobile were left out
FiledUnlessNoMobile(mm, x, memberId) ==
    IF x.mobileNormalized = <<>> THEN mm
    ELSE IF Lookup(mm, memberId) = 0
    THEN Append(mm, NewMember(x, memberId))
    ELSE [mm EXCEPT ![Lookup(mm, memberId)] = MergeRow(@, x)]

\* membersMap after the row is filed under memberId: a new member, or the
\* existing one merged with the row
Filed(mm, x, memberId) ==
    IF Lookup(mm, memberId) = 0
    THEN Append(mm, NewMember(x, memberId))
    ELSE [mm EXCEPT ![Lookup(mm, memberId)] = MergeRow(@, x)]

\* the attendance events of a row, one per marked attendance column
EventsOf(x) ==
    [k \in 1..Len(x.attDates) |->
        [member_mobile |-> IF x.mobileNormalized # <<>> THEN x.mobileNormalized ELSE NA,
         member_name |-> IF x.name # <<>> THEN x.name
                         ELSE <<"U","N","K","N","O","W","N">>,
         attendance_date |-> x.attDates[k],
         attended_month |-> MonthOf(x.attDates[k]),
         import_month |-> x.context.importMonth]]

\* NeedsReview as it would be if every row were flagged
ReviewAll(x) == TRUE

\* the row is flagged for manual review
NeedsReview(x) ==
    (x.planRaw = <<>> \/ x.mapped.planType = "null") \/ x.mobileNormalized = <<>>

\* the manual-review item of row q
ReviewItem(x, q) ==
    [row_index |-> q + 1,
     name |-> x.name,
     mobile_candidate |-> IF Truthy(x.mobileCandidate) THEN String(x.mobileCandidate) ELSE <<>>,
     mobile_normalized |-> IF x.mobileNormalized # <<>> THEN x.mobileNormalized ELSE NA,
     planRaw |-> x.planRaw,
     importMonth |-> x.context.importMonth,
     reason |-> <<IF x.planRaw = <<>> THEN "missing_plan" ELSE "unknown_plan">>
                \o (IF x.mobileNormalized = <<>> THEN <<"no_mobile">> ELSE <<>>)]


\* --------------------------------------- member aggregator and derived dates

DayOfIso(d) == DaysFromCivil(d \div 10000, (d \div 100) % 100, d % 100)

\* the local calendar day of new Date('yyyy-mm-dd'), which is midnight UTC: the
\* day before wherever local time is behind UTC
LocalDayOfIso(d, zone) == IF zone = "West" THEN DayOfIso(d) - 1 ELSE DayOfIso(d)

DaysInMonth(y, m) ==
    (IF m = 12 THEN DaysFromCivil(y + 1, 1, 1) ELSE DaysFromCivil(y, m + 1, 1))
        - DaysFromCivil(y, m, 1)

\* the day d of month m of year y, or the last day of that month if it is shorter
ClampedDay(y, m, d, dim) == IsoOfDay(DaysFromCivil(y, m, 1) + (IF d >= dim THEN dim ELSE d) - 1)

MonthsOn(y, m, d) == ClampedDay(y, m, d, DaysInMonth(y, m))

AddMonthsCivil(c, n) ==
    MonthsOn(c.y + (c.m - 1 + n) \div 12, ((c.m - 1 + n) % 12) + 1, c.d)

\* format(addMonths(date, n), 'yyyy-MM-dd') of date-fns on a local day: the same
\* day of the month n months on, clamped to the length of that month
addMonths(day, n) == AddMonthsCivil(CivilFromDays(day), n)

\* LastAttendanceOf as it would be if the value set when the member was
\* created were kept
StaleLastAttendance(m) == m.lastAttendance

\* m.lastAttendance once the output loop has refreshed it from the attendance
LastAttendanceOf(m) ==
    IF m.attendance # <<>> THEN m.attendance[Len(m.attendance)] ELSE m.lastAttendance

\* the Member pushed to the members output for an entry of membersMap
OutputMember(m, zone) ==
    LET last == LastAttendanceOf(m)
    IN  [id |-> m.id,
         name |-> m.name,
         mobile |-> m.mobile,
         mobileNormalized |-> m.mobileNormalized,
         planRaw |-> m.planRaw,
         planType |-> m.planType,
         planMonths |-> m.planMonths,
         startDate |-> m.startDate,
         lastAttendance |-> last,
         nextExpectedAttendance |->
             IF last # 0 THEN addMonths(LocalDayOfIso(last, zone), 1) ELSE 0,
         nextPaymentDueByPlan |->
             IF last # 0 /\ m.planMonths # 0
             THEN addMonths(LocalDayOfIso(last, zone), m.planMonths) ELSE 0,
         attendedMonths |-> m.attendedMonths,
         attendanceCount |-> Len(m.attendance),
         importMonth |-> m.importMonth,
         importMonthISO |-> m.importMonthISO,
         needsReview |-> FALSE]

\* the members output: one Member per key of membersMap, in Object.keys order
MembersOf(mm, zone) ==
    [n \in 1..Len(mm) |-> OutputMember(mm[ObjectKeys(mm)[n]], zone)]

\* colCounts after colCounts.sort((a, b) => b.count - a.count), a stable sort
colCounts(rows) ==
    LET cols == 0..(colsCount(rows) - 1)
        before(a, b) == \/ planCount(rows, a) > planCount(rows, b)
                        \/ planCount(rows, a) = planCount(rows, b) /\ a < b
    IN  [n \in 1..colsCount(rows) |->
            LET c == CHOOSE c \in cols : Cardinality({k \in cols : before(k, c)}) = n - 1
            IN  <<c, planCount(rows, c)>>]

\* the diagnostics output
DiagnosticsOf(rows, c) ==
    [detectedHeaders |-> c.headersWithYear,
     planDetection |-> [bestCol |-> c.bestPlanCol, counts |-> colCounts(rows)],
     rawRows |-> Len(rows),
     rawCols |-> colsCount(rows)]

\* what parseExcelToStructured computes from the whole grid before its row loop
ContextFor(rows, zone) ==
    [headersWithYear |-> headersWithYear(rows, zone),
     rowToImport |-> rowToImport(rows, headersWithYear(rows, zone)),
     bestPlanCol |-> bestPlanCol(rows),
     columnHeaderRowIndex |-> columnHeaderRowIndex(rows),
     attendanceDateColumns |-> attendanceDateColumns(rows, zone)]


\* ------------------------------------------------------- persistence writer

BATCH_SIZE == 500

NoConflict == [present |-> FALSE, previousName |-> <<>>, importedName |-> <<>>, note |-> <<>>]

\* importedMember.attendance || []: the Member type of parseExcelToStructured has
\* no attendance field
ImportedAttendance(imported) == <<>>

\* the document written for a member no document exists for: the imported
\* Member as it is
NewDocument(imported) ==
    [member |-> imported,
     attendance |-> ImportedAttendance(imported),
     conflictInfo |-> NoConflict,
     nextDueDate |-> 0]

\* computeDerivedDates(member) of a merged document.  parse(s, 'yyyy-MM-dd', ..)
\* reads a local day, so the time zone plays no part; a nextDueDate that is set
\* is a date the parser formatted as yyyy-MM-dd, which parseExcelDate reads
\* with its third format and format() writes back unchanged
computeDerivedDates(doc) ==
    LET att  == doc.attendance
        last == IF att # <<>> THEN att[Len(att)] ELSE doc.member.lastAttendance
        m1   == [doc.member EXCEPT
                   !.lastAttendance = last,
                   !.nextExpectedAttendance =
                       IF att # <<>> THEN addMonths(DayOfIso(last), 1) ELSE @,
                   !.nextPaymentDueByPlan =
                       IF att # <<>> /\ doc.member.planMonths # 0
                       THEN addMonths(DayOfIso(last), doc.member.planMonths) ELSE @,
                   !.attendedMonths = SortSet({MonthOf(d) : d \in Range(att)})]
    IN  [doc EXCEPT
           !.member = m1,
           !.nextDueDate = IF doc.nextDueDate # 0 THEN @ ELSE m1.nextPaymentDueByPlan]

PlanNote == "Plan type/months differ on import."

NameNote == "Auto-merged on import, verify name."

\* mergeMemberData as it would be if the imported name replaced the stored one
\* and no conflict were noted
mergeTakingName(existing, imported) ==
    computeDerivedDates([existing EXCEPT !.member.name = imported.name])

\* mergeMemberData(existingMember, importedMember): the merged document
mergeMemberData(existing, imported) ==
    LET fill == existing.member.planType \in {"null", "Unknown"}
        planDiffers == /\ ~fill
                       /\ \/ existing.member.planType # imported.planType
                          \/ existing.member.planMonths # imported.planMonths
        nameDiffers == existing.member.name # imported.name
        c1 == IF planDiffers
              THEN [existing.conflictInfo EXCEPT !.present = TRUE, !.note = Append(@, PlanNote)]
              ELSE existing.conflictInfo
        c2 == IF nameDiffers
              THEN [c1 EXCEPT !.present = TRUE,
                              !.previousName = existing.member.name,
                              !.importedName = imported.name,
                              !.note = Append(@, NameNote)]
              ELSE c1
        m1 == [existing.member EXCEPT
                 !.startDate = IF @ = 0 /\ imported.startDate # 0 THEN imported.startDate ELSE @,
                 !.planType = IF fill THEN imported.planType ELSE @,
                 !.planMonths = IF fill THEN imported.planMonths ELSE @,
                 !.importMonth = imported.importMonth]
    IN  computeDerivedDates(
            [member |-> m1,
             attendance |-> SortSet(Range(existing.attendance)
                                      \cup Range(ImportedAttendance(imported))),
             conflictInfo |-> c2,
             nextDueDate |-> existing.nextDueDate])

\* the entry mergeMemberData pushes to report.conflicts, if the names differ
ConflictsOf(existing, imported, rowNumber) ==
    IF existing.member.name # imported.name
    THEN <<[mobile |-> imported.mobileNormalized,
            existingName |-> existing.member.name,
            importedName |-> imported.name,
            rowNumber |-> rowNumber]>>
    ELSE <<>>

\* batch.set(ref, data) and batch.set(ref, data, {merge: true}) applied to the
\* collection: a merging set leaves a field the data does not carry as it is
ApplyWrite(docs, w) ==
    LET old == IF w.ref \in DOMAIN docs THEN docs[w.ref].conflictInfo ELSE NoConflict
        data == IF w.merge /\ ~w.data.conflictInfo.present
                THEN [w.data EXCEPT !.conflictInfo = old] ELSE w.data
    IN  [id \in DOMAIN docs \cup {w.ref} |-> IF id = w.ref THEN data ELSE docs[id]]

RECURSIVE ApplyBatch(_, _)
\* batch.commit(): the writes of the batch, in the order they were added
ApplyBatch(docs, ws) ==
    IF ws = <<>> THEN docs ELSE ApplyBatch(ApplyWrite(docs, Head(ws)), Tail(ws))


\* ------------------------------------------------------------------ actions

NoContext == ContextFor(<<>>, "UTC")

NoReport == [created |-> 0, updated |-> 0, conflicts |-> <<>>, errors |-> <<>>]

NoPrev == [valid |-> FALSE, rawRows |-> <<>>, members |-> <<>>, attendance |-> <<>>,
           manualReview |-> <<>>, diagnostics |-> DiagnosticsOf(<<>>, NoContext),
           store |-> <<>>]

\* no second POST has arrived
NoRival == [pc |-> "none", i |-> 0, batch |-> <<>>, report |-> NoReport]

\* no helper is called on its own
NoProbe == [input |-> <<>>, done |-> FALSE, structured |-> <<>>, parseExcel |-> <<>>]

Init ==
    /\ facts = CellFacts
    /\ tz \in TimeZones
    /\ pc = "idle"
    /\ imports = 0
    /\ rawRows = <<>>
    /\ ctx = NoContext
    /\ r = 0
    /\ membersMap = <<>>
    /\ attendance = <<>>
    /\ manualReview = <<>>
    /\ members = <<>>
    /\ diagnostics = DiagnosticsOf(<<>>, NoContext)
    /\ store = <<>>
    /\ batch = <<>>
    /\ i = 0
    /\ report = NoReport
    /\ response = "none"
    /\ prev = NoPrev
    /\ probe = NoProbe
    /\ tempFile = FALSE
    /\ log = <<>>
    /\ rival = NoRival

\* the number of marker and header rows a grid starts with
PrefixLen(g) == Cardinality({k \in 1..Len(g) : g[k] \in {MarkerRow, HeaderRow}})

\* the grids that hold the data rows of g in some order, its marker and header
\* rows in place (g is one of them)
Reordered(g) ==
    LET n == PrefixLen(g)
        d == SubSeq(g, n + 1, Len(g))
    IN  {SubSeq(g, 1, n) \o [k \in 1..Len(d) |-> d[f[k]]] : f \in Permutations(1..Len(d))}

\* the grids a further upload may carry: the same file again, the same rows in
\* another order, or a later register of one row in which a person returns
NextGrids(g) ==
    Reordered(g) \cup {<<MarkerRow, HeaderRow, d>> : d \in {JohnAgainRow, NoMobileRow}}

\* POST receives a file and parseExcelToStructured reads it and computes the
\* section contexts, the plan column and the attendance columns
Upload(g) ==
    /\ pc \in {"idle", "done"}
    /\ imports < MaxImports
    /\ imports' = imports + 1
    /\ prev' = IF pc = "done"
               THEN [valid |-> TRUE, rawRows |-> rawRows, members |-> members,
                     attendance |-> attendance, manualReview |-> manualReview,
                     diagnostics |-> diagnostics, store |-> store]
               ELSE prev
    /\ rawRows' = g
    /\ ctx' = ContextFor(g, tz)
    /\ r' = 0
    /\ membersMap' = <<>>
    /\ attendance' = <<>>
    /\ manualReview' = <<>>
    /\ members' = <<>>
    /\ diagnostics' = DiagnosticsOf(<<>>, NoContext)
    /\ batch' = <<>>
    /\ i' = 0
    /\ report' = NoReport
    /\ response' = "none"
    /\ pc' = "rows"
    /\ tempFile' = TRUE
    /\ UNCHANGED <<probe, facts, tz, store, log, rival>>

\* one iteration of the row loop of parseExcelToStructured
ParseRow ==
    /\ pc = "rows"
    /\ r < Len(rawRows)
    /\ r' = r + 1
    /\ IF IsSkippedRow(rawRows, r, ctx.columnHeaderRowIndex)
       THEN UNCHANGED <<membersMap, attendance, manualReview>>
       ELSE LET x == Extract(rawRows, ctx, r, tz)
            IN  /\ attendance' = attendance \o EventsOf(x)
                /\ IF IsEmptyExtract(x)
                   THEN UNCHANGED <<membersMap, manualReview>>
                   ELSE /\ \E memberId \in IF x.mobileNormalized # <<>>
                                           THEN {x.mobileNormalized}
                                           ELSE UUIDS \ {membersMap[k].id : k \in 1..Len(membersMap)} :
                              membersMap' = Filed(membersMap, x, memberId)
                        /\ manualReview' = IF NeedsReview(x)
                                           THEN Append(manualReview, ReviewItem(x, r))
                                           ELSE manualReview
    /\ UNCHANGED <<probe, facts, tz, pc, imports, rawRows, ctx, members, diagnostics, store, batch, i,
                   report, response, prev, tempFile, log, rival>>

\* the row loop is over: parseExcelToStructured derives the dates, returns its
\* outputs, and POST starts writeMembersToFirestore if there is a member
ParseFinish ==
    /\ pc = "rows"
    /\ r = Len(rawRows)
    /\ members' = MembersOf(membersMap, tz)
    /\ diagnostics' = DiagnosticsOf(rawRows, ctx)
    /\ pc' = IF membersMap # <<>> THEN "write" ELSE "done"
    /\ response' = IF membersMap # <<>> THEN "none" ELSE "success"
    /\ tempFile' = FALSE
    /\ UNCHANGED <<probe, facts, tz, imports, rawRows, ctx, r, membersMap, attendance, manualReview,
                   store, batch, i, report, prev, log, rival>>

\* the write queued for a member after its document was read from docs: the
\* merged document if there is one, else the new document
WriteFor(docs, imported) ==
    IF imported.mobileNormalized \in DOMAIN docs
    THEN [ref |-> imported.mobileNormalized, merge |-> TRUE,
          data |-> mergeMemberData(docs[imported.mobileNormalized], imported)]
    ELSE [ref |-> imported.mobileNormalized, merge |-> FALSE, data |-> NewDocument(imported)]

\* the report after the member at loop index ix was queued
Counted(rep, docs, imported, ix) ==
    IF imported.mobileNormalized \in DOMAIN docs
    THEN [rep EXCEPT
            !.updated = @ + 1,
            !.conflicts = @ \o ConflictsOf(docs[imported.mobileNormalized], imported, ix + 2)]
    ELSE [rep EXCEPT !.created = @ + 1]

\* one iteration of the loop of writeMembersToFirestore: read the document of
\* the member's mobileNormalized, then queue the merged or the new document
WriteMember ==
    /\ pc = "write"
    /\ i < Len(members)
    /\ LET imported == members[i + 1]
           full == Len(batch) + 1 = BATCH_SIZE
       IN  /\ report' = Counted(report, store, imported, i)
           /\ batch' = IF full THEN <<>> ELSE Append(batch, WriteFor(store, imported))
           /\ store' = IF full THEN ApplyBatch(store, Append(batch, WriteFor(store, imported)))
                       ELSE store
    /\ i' = i + 1
    /\ UNCHANGED <<probe, facts, tz, pc, imports, rawRows, ctx, r, membersMap, attendance, manualReview,
                   members, diagnostics, response, prev, tempFile, log, rival>>

\* the loop is over: the open batch is committed and POST responds
Commit ==
    /\ pc = "write"
    /\ i = Len(members)
    /\ store' = ApplyBatch(store, batch)
    /\ batch' = <<>>
    /\ pc' = "done"
    /\ response' = "success"
    /\ UNCHANGED <<probe, facts, tz, imports, rawRows, ctx, r, membersMap, attendance, manualReview,
                   members, diagnostics, i, report, prev, tempFile, log, rival>>

Next ==
    \/ \E g \in IF imports = 0 THEN Grids ELSE NextGrids(rawRows) : Upload(g)
    \/ ParseRow
    \/ ParseFinish
    \/ WriteMember
    \/ Commit

Spec == Init /\ [][Next]_vars


\* ------------------------------------------------- normalizeMobile on its own

\* Longest run of digits of a mobile cell.
MaxMobileDigits == 13

\* digit strings as registers hold them: a run of digits, as it is or behind a
\* country prefix, a trunk zero or a spaced prefix
MobileCells ==
    LET run(a, n) == [k \in 1..n |-> DigitChar[((a + k) % 10) + 1]]
        body == {run(a, n) : a \in {0, 8}, n \in 5..MaxMobileDigits}
        head == {<<>>, <<"9", "1">>, <<"+", "9", "1", " ">>, <<"0">>}
    IN  {h \o b : h \in head, b \in body} \cup {JohnAgainRow[3].s, ShortMobileRow[3].s}

MobileInit ==
    /\ facts = CellFacts /\ tz = "UTC" /\ pc = "idle" /\ imports = 0 /\ rawRows = <<>>
    /\ ctx = NoContext /\ r = 0 /\ membersMap = <<>> /\ attendance = <<>>
    /\ manualReview = <<>> /\ members = <<>>
    /\ diagnostics = DiagnosticsOf(<<>>, NoContext)
    /\ store = <<>> /\ batch = <<>> /\ i = 0 /\ report = NoReport
    /\ response = "none" /\ prev = NoPrev
    /\ tempFile = FALSE /\ log = <<>> /\ rival = NoRival
    /\ probe \in {[NoProbe EXCEPT !.input = s] : s \in MobileCells}

\* both variants of normalizeMobile are called with the cell
Normalize ==
    /\ ~probe.done
    /\ probe' = [probe EXCEPT !.done = TRUE,
                               !.structured = normalizeMobile(Str(probe.input)),
                               !.parseExcel = normalizeMobileOfParseExcel(probe.input)]
    /\ UNCHANGED <<facts, tz, pc, imports, rawRows, ctx, r, membersMap, attendance,
                   manualReview, members, diagnostics, store, batch, i, report, response, prev,
                   tempFile, log, rival>>

MobileSpec == MobileInit /\ [][Normalize]_vars


\* ------------------------------------------- the start date of one row

\* normalizeTwoDigitYear of date-fns against the current year: the year of the
\* century that keeps it within 50 years ahead
TwoDigitYear(y) ==
    LET rangeEnd == CurrentYear + 50
    IN  y + (rangeEnd \div 100) * 100 - (IF y >= rangeEnd % 100 THEN 100 ELSE 0)

\* parse(s, fmt, new Date()) of date-fns for a format of day, month and year
\* in some order around a separator: 1 to 2 digits for MM and dd, 1 to yearLen
\* for the year, nothing else; the ISO date, or 0 for an Invalid Date
DateFnsParse(s, fmt) ==
    LET seps  == {ix \in 1..Len(s) : s[ix] = fmt.sep}
        a     == Min(seps)
        b     == Max(seps)
        field == <<SubSeq(s, 1, a - 1), SubSeq(s, a + 1, b - 1), SubSeq(s, b + 1, Len(s))>>
        yf    == field[fmt.y]
        year  == IF fmt.yearLen = 2 THEN TwoDigitYear(StrToNum(yf)) ELSE StrToNum(yf)
        month == StrToNum(field[fmt.m])
        day   == StrToNum(field[fmt.d])
    IN  IF /\ Cardinality(seps) = 2
           /\ \A ix \in (1..Len(s)) \ seps : s[ix] \in Digit
           /\ \A k \in 1..3 : field[k] # <<>>
           /\ Len(field[fmt.m]) <= 2 /\ Len(field[fmt.d]) <= 2 /\ Len(yf) <= fmt.yearLen
           /\ (fmt.yearLen = 2 \/ year > 0)
           /\ month >= 1 /\ month <= 12
           /\ day >= 1 /\ day <= DaysInMonth(year, month)
        THEN year * 10000 + month * 100 + day
        ELSE 0

\* the formats parseExcelDate tries, in its order: 'MM/dd/yy', 'dd/MM/yy',
\* 'yyyy-MM-dd', 'MM-dd-yyyy', 'dd-MM-yyyy', 'MM/dd/yyyy', 'dd/MM/yyyy'
DateFormats ==
    << [sep |-> "/", m |-> 1, d |-> 2, y |-> 3, yearLen |-> 2],
       [sep |-> "/", m |-> 2, d |-> 1, y |-> 3, yearLen |-> 2],
       [sep |-> "-", m |-> 2, d |-> 3, y |-> 1, yearLen |-> 4],
       [sep |-> "-", m |-> 1, d |-> 2, y |-> 3, yearLen |-> 4],
       [sep |-> "-", m |-> 2, d |-> 1, y |-> 3, yearLen |-> 4],
       [sep |-> "/", m |-> 1, d |-> 2, y |-> 3, yearLen |-> 4],
       [sep |-> "/", m |-> 2, d |-> 1, y |-> 3, yearLen |-> 4] >>

\* format(parseExcelDate(cellValue), 'yyyy-MM-dd') of parseExcel: the date of a
\* serial number or of the first format that reads the string, 0 where
\* parseExcelDate returns null
parseExcelDate(cell) ==
    LET hit == {k \in 1..Len(DateFormats) : DateFnsParse(cell.s, DateFormats[k]) # 0}
    IN  IF cell.t = "num" THEN IsoOfDay(SerialDay(cell.n))
        ELSE IF cell.t = "str" /\ hit # {} THEN DateFnsParse(cell.s, DateFormats[Min(hit)])
        ELSE 0

\* the start date parseExcel gives the member of a row with that start-date
\* cell, or that it throws: format() of date-fns throws on the null of an
\* unreadable cell
StartDateOfParseExcel(cell) ==
    IF ~Truthy(cell) THEN [throws |-> FALSE, startDate |-> 0]
    ELSE IF parseExcelDate(cell) = 0 THEN [throws |-> TRUE, startDate |-> 0]
    ELSE [throws |-> FALSE, startDate |-> parseExcelDate(cell)]

\* start-date cells as registers hold them: days, months and years around a
\* separator, ISO dates, serial numbers, remarks and blanks
StartCells ==
    LET days   == {<<"1","5">>, <<"0","2">>, <<"3","1">>}
        months == {<<"0","2">>, <<"1","3">>}
        years  == {<<"2","0","2","3">>, <<"2","3">>}
    IN  {Str(a \o <<p>> \o b \o <<p>> \o y) :
            a \in days, b \in months, y \in years, p \in {"/", "-"}}
          \cup {Str(<<"2","0","2","3","-","0","2","-","1","5">>), Str(<<"T","B","D">>),
                Str(<<"N","/","A">>), Str(<<"-">>), Str(<<" ">>), Blank,
                Num(44957), Num(1)}

StartInit ==
    /\ facts = CellFacts /\ tz \in TimeZones /\ pc = "idle" /\ imports = 0 /\ rawRows = <<>>
    /\ ctx = NoContext /\ r = 0 /\ membersMap = <<>> /\ attendance = <<>>
    /\ manualReview = <<>> /\ members = <<>>
    /\ diagnostics = DiagnosticsOf(<<>>, NoContext)
    /\ store = <<>> /\ batch = <<>> /\ i = 0 /\ report = NoReport
    /\ response = "none" /\ prev = NoPrev
    /\ tempFile = FALSE /\ log = <<>> /\ rival = NoRival
    /\ probe \in {[NoProbe EXCEPT !.input = c] : c \in StartCells}

\* a row with a name, a mobile and that start-date cell, and no other cell that
\* reads as a date, goes through the row loop of both parsers
ParseStartDate ==
    /\ ~probe.done
    /\ probe' = [probe EXCEPT
                   !.done = TRUE,
                   !.structured = [throws |-> FALSE,
                                   startDate |-> tryParseDate(probe.input, tz)],
                   !.parseExcel = StartDateOfParseExcel(probe.input)]
    /\ UNCHANGED <<facts, tz, pc, imports, rawRows, ctx, r, membersMap, attendance,
                   manualReview, members, diagnostics, store, batch, i, report, response, prev,
                   tempFile, log, rival>>

StartSpec == StartInit /\ [][ParseStartDate]_vars


\* ------------------------------------------------ failures of a request

\* POST writes the temporary file and parseExcelToStructured throws: the file
\* cannot be read as a workbook.  POST logs the error and answers 500.
ParseThrows ==
    /\ pc \in {"idle", "done"}
    /\ imports < MaxImports
    /\ imports' = imports + 1
    /\ prev' = IF pc = "done"
               THEN [valid |-> TRUE, rawRows |-> rawRows, members |-> members,
                     attendance |-> attendance, manualReview |-> manualReview,
                     diagnostics |-> diagnostics, store |-> store]
               ELSE prev
    /\ tempFile' = TRUE
    /\ rawRows' = <<>>
    /\ ctx' = NoContext
    /\ r' = 0
    /\ membersMap' = <<>>
    /\ attendance' = <<>>
    /\ manualReview' = <<>>
    /\ members' = <<>>
    /\ diagnostics' = DiagnosticsOf(<<>>, NoContext)
    /\ batch' = <<>>
    /\ i' = 0
    /\ report' = NoReport
    /\ log' = Append(log, [what |-> "file", ref |-> <<>>])
    /\ response' = "error"
    /\ pc' = "done"
    /\ UNCHANGED <<probe, facts, tz, store, rival>>

\* one iteration of the loop of writeMembersToFirestore in which the read of
\* the document (or the set) throws: the catch of the loop logs the member
WriteMemberFails ==
    /\ pc = "write"
    /\ i < Len(members)
    /\ i' = i + 1
    /\ log' = Append(log, [what |-> "member", ref |-> members[i + 1].mobileNormalized])
    /\ UNCHANGED <<probe, facts, tz, pc, imports, rawRows, ctx, r, membersMap, attendance,
                   manualReview, members, diagnostics, store, batch, report, response, prev,
                   tempFile, rival>>

\* the loop is over and the commit of the open batch is rejected: the error
\* leaves writeMembersToFirestore, POST logs it and answers 500
CommitFails ==
    /\ pc = "write"
    /\ i = Len(members)
    /\ batch # <<>>
    /\ batch' = <<>>
    /\ log' = Append(log, [what |-> "file", ref |-> <<>>])
    /\ pc' = "done"
    /\ response' = "error"
    /\ UNCHANGED <<probe, facts, tz, imports, rawRows, ctx, r, membersMap, attendance,
                   manualReview, members, diagnostics, store, i, report, prev, tempFile, rival>>

FaultNext ==
    \/ \E g \in Grids : imports = 0 /\ Upload(g)
    \/ imports = 0 /\ ParseThrows
    \/ ParseRow
    \/ ParseFinish
    \/ WriteMember
    \/ WriteMemberFails
    \/ Commit
    \/ CommitFails

FaultSpec == Init /\ [][FaultNext]_vars


\* --------------------------------------------- two requests at the same time

\* a second POST of the same file has parsed it to the same members and enters
\* writeMembersToFirestore while the first is writing or has answered
RivalStart ==
    /\ pc \in {"write", "done"}
    /\ members # <<>>
    /\ rival.pc = "none"
    /\ rival' = [rival EXCEPT !.pc = "write"]
    /\ UNCHANGED <<probe, facts, tz, pc, imports, rawRows, ctx, r, membersMap, attendance,
                   manualReview, members, diagnostics, store, batch, i, report, response, prev,
                   tempFile, log>>

\* one iteration of the loop of writeMembersToFirestore of the second request
RivalWriteMember ==
    /\ rival.pc = "write"
    /\ rival.i < Len(members)
    /\ LET imported == members[rival.i + 1]
           full == Len(rival.batch) + 1 = BATCH_SIZE
       IN  /\ rival' = [rival EXCEPT
                          !.i = @ + 1,
                          !.report = Counted(@, store, imported, rival.i),
                          !.batch = IF full THEN <<>>
                                    ELSE Append(@, WriteFor(store, imported))]
           /\ store' = IF full
                       THEN ApplyBatch(store, Append(rival.batch, WriteFor(store, imported)))
                       ELSE store
    /\ UNCHANGED <<probe, facts, tz, pc, imports, rawRows, ctx, r, membersMap, attendance,
                   manualReview, members, diagnostics, batch, i, report, response, prev,
                   tempFile, log>>

\* the second request commits its open batch
RivalCommit ==
    /\ rival.pc = "write"
    /\ rival.i = Len(members)
    /\ store' = ApplyBatch(store, rival.batch)
    /\ rival' = [rival EXCEPT !.pc = "done", !.batch = <<>>]
    /\ UNCHANGED <<probe, facts, tz, pc, imports, rawRows, ctx, r, membersMap, attendance,
                   manualReview, members, diagnostics, batch, i, report, response, prev,
                   tempFile, log>>

\* the registers under a section marker and a column-header row
ConcurrentGrids == {g \in Grids : PrefixLen(g) = 2}

ConcurrentNext ==
    \/ \E g \in ConcurrentGrids : imports = 0 /\ Upload(g)
    \/ ParseRow
    \/ ParseFinish
    \/ WriteMember
    \/ Commit
    \/ RivalStart
    \/ RivalWriteMember
    \/ RivalCommit

ConcurrentSpec == Init /\ [][ConcurrentNext]_vars


\* ------------------------------------------- registers of several sections

\* Most rows of a register of several sections.
MaxSectionRows == 3

\* a marker without a year, n blank rows, and a row dated in column 1
Padded(n) == <<MarchRow>> \o [k \in 1..n |-> BlankRow] \o <<DatedRow>>

\* registers in which markers with and without a year meet rows dated in
\* column 1, dated elsewhere or not at all, and two in which the dated row is
\* the last row inside and the first row outside the 30-row window
SectionGrids ==
    SeqsUpTo({MarkerRow, MarchRow, HeaderRow, JohnRow, JohnAgainRow, DatedRow}, MaxSectionRows)
      \cup {Padded(29), Padded(30)}

SectionNext ==
    \/ \E g \in SectionGrids : imports = 0 /\ Upload(g)
    \/ ParseRow
    \/ ParseFinish
    \/ WriteMember
    \/ Commit

SectionSpec == Init /\ [][SectionNext]_vars


\* ------------------------------------------------------ the rows of a parse

\* what the row loop extracts from row q of the grid being parsed
Extracted(q) == Extract(rawRows, ctx, q, tz)

\* the rows the loop has filed under a member so far: neither skipped nor empty
FiledRows ==
    {q \in 0..(r - 1) : /\ ~IsSkippedRow(rawRows, q, ctx.columnHeaderRowIndex)
                        /\ ~IsEmptyExtract(Extracted(q))}

\* the parse has returned its outputs
Parsed == pc \in {"write", "done"}

\* the dates of the attendance events emitted for a mobile
DatesOf(events, mobile) ==
    {events[k].attendance_date : k \in {n \in 1..Len(events) : events[n].member_mobile = mobile}}

\* the mobiles of the members of a members output that have one
MobilesOf(ms) == {ms[k].mobileNormalized : k \in 1..Len(ms)} \ {NA}


\* ------------------------------------------------------------------ claims

\* C1: the members output holds exactly one Member per identity key: no two
\* Members share an id, and every row whose mobile normalizes to the same digit
\* string is merged into the one Member of that mobile; a row without a mobile
\* is a Member of its own.
C1_OneMemberPerKey ==
    /\ \A j, k \in 1..Len(membersMap) : membersMap[j].id = membersMap[k].id => j = k
    /\ \A q \in FiledRows :
          Extracted(q).mobileNormalized # <<>> =>
              Cardinality({k \in 1..Len(membersMap) :
                              membersMap[k].mobileNormalized = Extracted(q).mobileNormalized}) = 1
    /\ Parsed =>
          /\ \A j, k \in 1..Len(members) : members[j].id = members[k].id => j = k
          /\ \A q \in FiledRows :
                Extracted(q).mobileNormalized # <<>> =>
                    \E k \in 1..Len(members) : members[k].id = Extracted(q).mobileNormalized
          /\ Len(members) =
                Cardinality({Extracted(q).mobileNormalized : q \in FiledRows} \ {<<>>})
                  + Cardinality({q \in FiledRows : Extracted(q).mobileNormalized = <<>>})

\* two rows of one mobile have been parsed into a single Member
C1_Witness ==
    /\ pc = "done"
    /\ Len(members) = 1
    /\ \E p, q \in FiledRows :
          /\ p # q
          /\ Extracted(p).mobileNormalized # <<>>
          /\ Extracted(p).mobileNormalized = Extracted(q).mobileNormalized
          /\ Extracted(p).name # Extracted(q).name

\* C2: importing the same parse result a second time is idempotent: the store
\* holds the same documents as after the first import, and no document's
\* attendance, name, plan or conflictInfo has changed.
C2_ReimportIdempotent ==
    (pc = "done" /\ imports = 2 /\ prev.valid /\ members = prev.members) =>
        /\ DOMAIN store = DOMAIN prev.store
        /\ \A id \in DOMAIN store :
              /\ store[id].attendance = prev.store[id].attendance
              /\ store[id].member.name = prev.store[id].member.name
              /\ store[id].member.planType = prev.store[id].member.planType
              /\ store[id].member.planMonths = prev.store[id].member.planMonths
              /\ store[id].conflictInfo = prev.store[id].conflictInfo

\* C3: when two imports hold the same person (same normalized mobile) with
\* disjoint attendance dates, the store holds one document of that mobile whose
\* attendance is the union of the dates of both imports.
C3_AttendanceUnion ==
    (pc = "done" /\ imports = 2 /\ prev.valid) =>
        \A m \in MobilesOf(members) \cap MobilesOf(prev.members) :
            DatesOf(attendance, m) \cap DatesOf(prev.attendance, m) = {} =>
                /\ m \in DOMAIN store
                /\ store[m].attendance =
                       SortSet(DatesOf(attendance, m) \cup DatesOf(prev.attendance, m))

\* C4: when no row qualifies as the column-header row the parse fails: POST does
\* not answer with a success, and no row has become a Member, an attendance
\* event or a manual-review item.
C4_NoHeaderFails ==
    (Parsed /\ ctx.columnHeaderRowIndex = -1) =>
        /\ response # "success"
        /\ membersMap = <<>> /\ members = <<>>
        /\ attendance = <<>>
        /\ manualReview = <<>>

\* C5: parsing the identical grid twice yields identical members, attendance
\* and diagnostics outputs.
C5_ParseDeterministic ==
    (Parsed /\ prev.valid /\ prev.rawRows = rawRows) =>
        /\ members = prev.members
        /\ attendance = prev.attendance
        /\ diagnostics = prev.diagnostics

\* the grid of this parse holds the data rows of the previous one in some order
SameRowsAsBefore == Parsed /\ prev.valid /\ rawRows \in Reordered(prev.rawRows)

\* the rows filed under a mobile, and the first of them that carries a start
\* date or a plan (or -1)
RowsOf(mobile) == {q \in FiledRows : Extracted(q).mobileNormalized = mobile}

\* C6 as claimed: the content of every Member (name, mobile, plan, startDate,
\* attendance, importMonth) does not depend on the order in which the data rows
\* that share its identity key are processed.
C6_OrderIndependent ==
    SameRowsAsBefore =>
        \A j \in 1..Len(members) :
            members[j].mobileNormalized # NA =>
                \E k \in 1..Len(prev.members) :
                    /\ prev.members[k].id = members[j].id
                    /\ prev.members[k].name = members[j].name
                    /\ prev.members[k].mobile = members[j].mobile
                    /\ prev.members[k].planRaw = members[j].planRaw
                    /\ prev.members[k].planType = members[j].planType
                    /\ prev.members[k].planMonths = members[j].planMonths
                    /\ prev.members[k].startDate = members[j].startDate
                    /\ prev.members[k].attendedMonths = members[j].attendedMonths
                    /\ prev.members[k].attendanceCount = members[j].attendanceCount
                    /\ prev.members[k].lastAttendance = members[j].lastAttendance
                    /\ prev.members[k].importMonth = members[j].importMonth

\* C6 as amended: the attendance of every Member keyed by a mobile does not
\* depend on the order of its rows, while its name and mobile are those of its
\* first row, its import month that of its first row, and its start date and
\* plan those of its first row that has one.
C6_AttendanceOrderIndependent ==
    /\ SameRowsAsBefore =>
          \A j \in 1..Len(members) :
              members[j].mobileNormalized # NA =>
                  \E k \in 1..Len(prev.members) :
                      /\ prev.members[k].id = members[j].id
                      /\ prev.members[k].attendedMonths = members[j].attendedMonths
                      /\ prev.members[k].attendanceCount = members[j].attendanceCount
                      /\ prev.members[k].lastAttendance = members[j].lastAttendance
                      /\ prev.members[k].nextExpectedAttendance
                            = members[j].nextExpectedAttendance
    /\ \A j \in 1..Len(membersMap) :
          membersMap[j].mobileNormalized # NA =>
              /\ membersMap[j].name = Extracted(Min(RowsOf(membersMap[j].id))).name
              /\ membersMap[j].mobile = String(Extracted(Min(RowsOf(membersMap[j].id))).mobileCandidate)
              /\ membersMap[j].importMonth =
                    Extracted(Min(RowsOf(membersMap[j].id))).context.importMonth
              /\ membersMap[j].startDate =
                    IF \A q \in RowsOf(membersMap[j].id) : Extracted(q).startDate = 0 THEN 0
                    ELSE Extracted(Min({q \in RowsOf(membersMap[j].id) :
                                           Extracted(q).startDate # 0})).startDate
              /\ membersMap[j].planRaw =
                    IF \A q \in RowsOf(membersMap[j].id) : Extracted(q).planRaw = <<>> THEN <<>>
                    ELSE Extracted(Min({q \in RowsOf(membersMap[j].id) :
                                           Extracted(q).planRaw # <<>>})).planRaw
              /\ Range(membersMap[j].attendance) =
                    UNION {Range(Extracted(q).attDates) : q \in RowsOf(membersMap[j].id)}

\* the two rows of one person were parsed in both orders: the names differ, the
\* attendance of two dates does not
C6_Witness ==
    /\ pc = "done" /\ SameRowsAsBefore /\ rawRows # prev.rawRows
    /\ \E j \in 1..Len(members), k \in 1..Len(prev.members) :
          /\ members[j].mobileNormalized # NA
          /\ prev.members[k].id = members[j].id
          /\ prev.members[k].name # members[j].name
          /\ members[j].attendanceCount = 2
          /\ prev.members[k].attendanceCount = 2

\* C7: manual review never drops data: every row that has a ManualReviewItem
\* has also created or been merged into a Member of the same parse, which
\* holds the row's attendance and reaches the members output.
C7_ReviewKeepsMember ==
    \A n \in 1..Len(manualReview) :
        \E k \in 1..Len(membersMap) :
            /\ membersMap[k].mobileNormalized = manualReview[n].mobile_normalized
            /\ Range(Extracted(manualReview[n].row_index - 1).attDates)
                  \subseteq Range(membersMap[k].attendance)
            /\ manualReview[n].mobile_normalized = NA =>
                  /\ membersMap[k].id \in UUIDS
                  /\ membersMap[k].name = manualReview[n].name
                  /\ membersMap[k].planRaw = manualReview[n].planRaw
            /\ Parsed => \E j \in 1..Len(members) : members[j].id = membersMap[k].id

\* a parse has ended with an item for a row without a mobile and one for a row
\* with a mobile but no plan
C7_Witness ==
    /\ pc = "done"
    /\ \E n \in 1..Len(manualReview) : manualReview[n].mobile_normalized = NA
    /\ Len(members) >= 1

\* C8: every ManualReviewItem comes from a row whose plan token is missing or
\* maps to no known plan type, or whose mobile could not be normalized; a row
\* with a resolved plan and a normalized mobile has no item.
C8_ReviewOnlyDeficient ==
    /\ \A n \in 1..Len(manualReview) :
          \/ Extracted(manualReview[n].row_index - 1).planRaw = <<>>
          \/ mapPlanRaw(Extracted(manualReview[n].row_index - 1).planRaw).planType = "null"
          \/ Extracted(manualReview[n].row_index - 1).mobileNormalized = <<>>
    /\ \A q \in FiledRows :
          (/\ Extracted(q).planRaw # <<>>
           /\ mapPlanRaw(Extracted(q).planRaw).planType # "null"
           /\ Extracted(q).mobileNormalized # <<>>)
              => \A n \in 1..Len(manualReview) : manualReview[n].row_index # q + 1

\* a parse has ended with two Members, of which one only is flagged
C8_Witness ==
    /\ pc = "done"
    /\ Len(members) = 2
    /\ Len(manualReview) = 1
    /\ \E q \in FiledRows :
          /\ Extracted(q).planRaw # <<>> /\ Extracted(q).mobileNormalized # <<>>
          /\ \A n \in 1..Len(manualReview) : manualReview[n].row_index # q + 1

\* C9: the reason of every ManualReviewItem follows the row's deficiencies: a
\* plan tag only if the row's plan was not resolved, no_mobile only if its
\* mobile could not be normalized, and for a row with a resolved plan but no
\* mobile the tag no_mobile alone.
C9_ReasonTagsAccurate ==
    \A n \in 1..Len(manualReview) :
        /\ (Range(manualReview[n].reason) \cap {"missing_plan", "unknown_plan"} # {}) =>
              \/ Extracted(manualReview[n].row_index - 1).planRaw = <<>>
              \/ mapPlanRaw(Extracted(manualReview[n].row_index - 1).planRaw).planType = "null"
        /\ ("no_mobile" \in Range(manualReview[n].reason)) =>
              Extracted(manualReview[n].row_index - 1).mobileNormalized = <<>>
        /\ (/\ mapPlanRaw(Extracted(manualReview[n].row_index - 1).planRaw).planType # "null"
            /\ Extracted(manualReview[n].row_index - 1).mobileNormalized = <<>>)
              => manualReview[n].reason = <<"no_mobile">>

\* the grid is a section marker, the column headers and data rows (none of them
\* a further marker) of which no two have the same normalized mobile
MockLayout ==
    /\ Len(rawRows) >= 2 /\ rawRows[1] = MarkerRow /\ rawRows[2] = HeaderRow
    /\ \A q \in 2..(Len(rawRows) - 1) : MonthOfRow(Row(rawRows, q)) = 0
    /\ \A p, q \in 2..(Len(rawRows) - 1) :
          (p # q /\ Extracted(p).mobileNormalized # <<>>)
              => Extracted(p).mobileNormalized # Extracted(q).mobileNormalized

\* the columns of data row q that hold an attendance mark under a header cell
\* that reads as a date
MarksOf(q) ==
    {c \in 0..(Len(HeaderRow) - 1) :
        /\ F(Cell(HeaderRow, c)).date[tz] # 0
        /\ HasCell(Row(rawRows, q), c)
        /\ F(Cell(Row(rawRows, q), c)).present}

\* the data rows that have a name, a mobile or an attendance mark
RowsWithContent ==
    {q \in 2..(Len(rawRows) - 1) :
        \/ Extracted(q).name # <<>>
        \/ Extracted(q).mobileNormalized # <<>>
        \/ MarksOf(q) # {}}

\* data row q has a plan token in the plan column or in columns 2 to 7
HasPlanToken(q) ==
    \E c \in ({ctx.bestPlanCol} \cup 2..7) \cap (0..(Len(Row(rawRows, q)) - 1)) :
        F(Cell(Row(rawRows, q), c)).planToken

C15_NormalizeMobileAsSpecified ==
    probe.done =>
        /\ probe.structured = probe.parseExcel
        /\ probe.structured # <<>> => (8 <= Len(probe.structured) /\ Len(probe.structured) <= 10)
        /\ Len(digitsOf(probe.input)) < 8 => probe.structured = <<>>
        /\ probe.input = JohnAgainRow[3].s =>
              probe.structured = <<"9","8","7","6","5","4","3","2","1","0">>

\* the entry of membersMap behind the Member of that id
Built(id) == membersMap[CHOOSE k \in 1..Len(membersMap) : membersMap[k].id = id]

\* the sequence has no element that is not below its successor
StrictlyAscending(s) == \A a, b \in 1..Len(s) : a < b => s[a] < s[b]

\* C11: for every Member built by parseExcelToStructured, after any sequence of
\* row merges, the attendance list is strictly ascending without a duplicate
\* date, and attendedMonths is the sorted, deduplicated set of the YYYY-MM
\* prefixes of that list.
C11_AttendanceSorted ==
    \A k \in 1..Len(membersMap) :
        /\ StrictlyAscending(membersMap[k].attendance)
        /\ StrictlyAscending(membersMap[k].attendedMonths)
        /\ Range(membersMap[k].attendedMonths)
              = {d \div 100 : d \in Range(membersMap[k].attendance)}
        /\ Parsed => \E j \in 1..Len(members) :
                        /\ members[j].id = membersMap[k].id
                        /\ members[j].attendedMonths = membersMap[k].attendedMonths

\* a Member has been merged from two rows, the first marked on the later date
C11_Witness ==
    /\ pc = "done"
    /\ \E k \in 1..Len(membersMap) :
          /\ Cardinality(RowsOf(membersMap[k].id)) = 2
          /\ Len(membersMap[k].attendance) = 2
          /\ Extracted(Min(RowsOf(membersMap[k].id))).attDates
                = <<membersMap[k].attendance[2]>>

\* C12: for every Member of a parse result, lastAttendance is the last and
\* greatest element of its attendance list, it is null if and only if that
\* list is empty, and attendanceCount is the size of the list.
C12_LastAttendance ==
    Parsed =>
        \A j \in 1..Len(members) :
            /\ \E k \in 1..Len(membersMap) : membersMap[k].id = members[j].id
            /\ (members[j].lastAttendance = 0) <=> (Built(members[j].id).attendance = <<>>)
            /\ Built(members[j].id).attendance # <<>> =>
                  /\ members[j].lastAttendance
                        = Built(members[j].id).attendance[Len(Built(members[j].id).attendance)]
                  /\ \A d \in Range(Built(members[j].id).attendance) :
                        d <= members[j].lastAttendance
            /\ members[j].attendanceCount = Len(Built(members[j].id).attendance)

\* a Member merged from two rows, whose last attendance is the second row's date
C12_Witness ==
    /\ pc = "done"
    /\ \E j \in 1..Len(members) :
          /\ members[j].attendanceCount = 2
          /\ members[j].lastAttendance
                \notin Range(Extracted(Min(RowsOf(members[j].id))).attDates)

\* the calendar date n months after date d: the same day of the month, or the
\* last day of that month if it is shorter
MonthsAfter(d, n) ==
    LET m0 == ((d \div 100) % 100) - 1 + n
        y  == (d \div 10000) + (m0 \div 12)
        m  == (m0 % 12) + 1
        leap == (y % 4 = 0 /\ y % 100 # 0) \/ y % 400 = 0
        len == IF m = 2 THEN (IF leap THEN 29 ELSE 28)
               ELSE IF m \in {4, 6, 9, 11} THEN 30 ELSE 31
    IN  y * 10000 + m * 100 + (IF d % 100 > len THEN len ELSE d % 100)

\* C13: for every Member of a parse result, nextPaymentDueByPlan is null
\* whenever planMonths or lastAttendance is null, and otherwise is
\* lastAttendance advanced by planMonths calendar months (same day of the
\* month, clamped to the length of the month).
C13_NextPaymentDue ==
    Parsed =>
        \A j \in 1..Len(members) :
            members[j].nextPaymentDueByPlan =
                IF members[j].planMonths = 0 \/ members[j].lastAttendance = 0 THEN 0
                ELSE MonthsAfter(members[j].lastAttendance, members[j].planMonths)

\* C14: when writeMembersToFirestore meets a stored member whose name differs
\* from the imported member's, the stored name is left as it is, a conflict
\* annotation with the previous and the imported name is written and one entry
\* is added to report.conflicts; no step ever changes the name of a stored
\* member.
C14_NameConflictAnnotated ==
    [][/\ \A id \in DOMAIN store :
             id \in DOMAIN store' /\ store'[id].member.name = store[id].member.name
       /\ (/\ pc = "write" /\ i' = i + 1
           /\ members[i + 1].mobileNormalized \in DOMAIN store
           /\ store[members[i + 1].mobileNormalized].member.name # members[i + 1].name)
          => /\ Len(batch') = Len(batch) + 1
             /\ batch'[Len(batch')].merge
             /\ batch'[Len(batch')].ref = members[i + 1].mobileNormalized
             /\ batch'[Len(batch')].data.member.name
                   = store[members[i + 1].mobileNormalized].member.name
             /\ batch'[Len(batch')].data.conflictInfo.present
             /\ batch'[Len(batch')].data.conflictInfo.previousName
                   = store[members[i + 1].mobileNormalized].member.name
             /\ batch'[Len(batch')].data.conflictInfo.importedName = members[i + 1].name
             /\ Len(report'.conflicts) = Len(report.conflicts) + 1
             /\ report'.conflicts[Len(report'.conflicts)].existingName
                   = store[members[i + 1].mobileNormalized].member.name
             /\ report'.conflicts[Len(report'.conflicts)].importedName = members[i + 1].name
      ]_vars

\* a second import has met a member stored under another name: the document of
\* a real mobile keeps its name and carries the annotation
C14_Witness ==
    /\ pc = "done" /\ imports = 2
    /\ Len(report.conflicts) = 1
    /\ \E id \in DOMAIN store \cap DOMAIN prev.store :
          /\ id # NA
          /\ store[id].member.name = prev.store[id].member.name
          /\ store[id].conflictInfo.present
          /\ ~prev.store[id].conflictInfo.present
          /\ store[id].conflictInfo.previousName = store[id].member.name
          /\ store[id].conflictInfo.importedName # store[id].member.name

\* the number of cells of column c of the grid that read as a plan token
TokensInColumn(c) ==
    Cardinality({q \in 1..Len(rawRows) :
                    /\ c < Len(rawRows[q])
                    /\ F(rawRows[q][c + 1]).planToken})

\* C16: plan-column detection takes column F (index 5) whenever that column
\* holds at least one plan token anywhere in the grid, even when another column
\* holds more; only when column 5 holds none is a column with the highest
\* count taken (none if no column holds a token).
C16_PlanColumnF ==
    pc # "idle" =>
        /\ TokensInColumn(5) >= 1 => ctx.bestPlanCol = 5
        /\ TokensInColumn(5) = 0 =>
              IF \E c \in 0..6 : TokensInColumn(c) >= 1
              THEN /\ ctx.bestPlanCol \in 0..6
                   /\ \A c \in 0..6 : TokensInColumn(c) <= TokensInColumn(ctx.bestPlanCol)
              ELSE ctx.bestPlanCol = -1

\* column 5 holds one plan token and column 4 two: column 5 is the plan column
\* and the Member's plan is read from it
C16_Witness ==
    /\ pc = "done"
    /\ TokensInColumn(5) = 1 /\ TokensInColumn(4) = 2
    /\ ctx.bestPlanCol = 5
    /\ \E j \in 1..Len(members) : members[j].planRaw = <<"6", "M">>

\* row q of the grid holds a cell with a month name
IsMarker(q) == \E c \in 1..Len(Row(rawRows, q)) : F(Row(rawRows, q)[c]).month # 0

\* the nearest section marker above row q, or -1
MarkerAbove(q) ==
    IF \E m \in 0..(q - 1) : IsMarker(m)
    THEN Max({m \in 0..(q - 1) : IsMarker(m)}) ELSE -1

\* C17: after section detection every row index of the grid has exactly one
\* context: a row above the first section marker has UNKNOWN with an empty ISO
\* month, and a row after a marker has that marker's month and year until the
\* next marker starts; the sections lie one after the other.
C17_RowContexts ==
    pc # "idle" =>
        /\ DOMAIN ctx.rowToImport = 0..(Len(rawRows) - 1)
        /\ \A h \in 1..(Len(ctx.headersWithYear) - 1) :
              ctx.headersWithYear[h].row_idx < ctx.headersWithYear[h + 1].row_idx
        /\ \A q \in 0..(Len(rawRows) - 1) :
              IF MarkerAbove(q) = -1
              THEN /\ ctx.rowToImport[q].importMonth = [month |-> 0, year |-> 0]
                   /\ ctx.rowToImport[q].importMonthISO = 0
              ELSE ~IsMarker(q) =>
                   \E h \in 1..Len(ctx.headersWithYear) :
                      /\ ctx.headersWithYear[h].row_idx = MarkerAbove(q)
                      /\ ctx.rowToImport[q].importMonth.month
                            = MonthOfRow(Row(rawRows, MarkerAbove(q)))
                      /\ ctx.rowToImport[q].importMonth.year = ctx.headersWithYear[h].year
                      /\ ctx.rowToImport[q].importMonthISO
                            = ctx.headersWithYear[h].year * 100
                                + MonthOfRow(Row(rawRows, MarkerAbove(q)))

\* a grid of two sections has been parsed: a row of the first is in FEBRUARY,
\* a row of the second in MARCH
C17_Witness ==
    /\ pc = "done"
    /\ Len(ctx.headersWithYear) = 2
    /\ \E p, q \in 0..(Len(rawRows) - 1) :
          /\ ~IsMarker(p) /\ ~IsMarker(q) /\ p < q
          /\ ctx.rowToImport[p].importMonth.month = 2
          /\ ctx.rowToImport[q].importMonth.month = 3

\* C18: the import provenance of every Member is well formed: importMonth is
\* UNKNOWN and importMonthISO empty, or importMonth is a month name with a
\* four-digit year and importMonthISO is that year with the number (01 to 12)
\* of that month.
C18_ProvenanceWellFormed ==
    Parsed =>
        \A j \in 1..Len(members) :
            \/ /\ members[j].importMonth = [month |-> 0, year |-> 0]
               /\ members[j].importMonthISO = 0
            \/ /\ members[j].importMonth.month \in 1..12
               /\ members[j].importMonth.year \in 1000..9999
               /\ members[j].importMonthISO
                     = members[j].importMonth.year * 100 + members[j].importMonth.month
               /\ \E q \in 0..(Len(rawRows) - 1) :
                     /\ IsMarker(q)
                     /\ MonthOfRow(Row(rawRows, q)) = members[j].importMonth.month

\* a Member of the section MARCH, whose year is not written in the marker
C18_Witness ==
    /\ pc = "done"
    /\ \E j \in 1..Len(members) :
          /\ members[j].importMonth.month = 3
          /\ members[j].importMonthISO = members[j].importMonth.year * 100 + 3

\* C19: a skipped row contributes nothing: a blank row, the column-header row,
\* a row with a month name in a cell (also when it carries a name and a
\* mobile), and a row without a name, a normalizable mobile and an attendance
\* mark add no Member, no AttendanceEvent and no ManualReviewItem.
C19_SkippedRowsContributeNothing ==
    [][(/\ pc = "rows" /\ r' = r + 1
        /\ \/ \A c \in 1..Len(Row(rawRows, r)) : F(Row(rawRows, r)[c]).text = <<>>
           \/ /\ IsHeaderRow(Row(rawRows, r))
              /\ \A q \in 0..(r - 1) : ~IsHeaderRow(Row(rawRows, q))
           \/ IsMarker(r)
           \/ /\ Extracted(r).name = <<>>
              /\ Extracted(r).mobileNormalized = <<>>
              /\ Extracted(r).attDates = <<>>)
       => /\ membersMap' = membersMap
          /\ attendance' = attendance
          /\ manualReview' = manualReview
      ]_vars

\* a grid with a marker row that carries a name, a mobile and a mark has been
\* parsed: a Member came from another row, none from the marker row
C19_Witness ==
    /\ pc = "done"
    /\ \E q \in 1..Len(rawRows) : rawRows[q] = MarchRow
    /\ Len(members) = 1
    /\ \A j \in 1..Len(members) : members[j].mobileNormalized # F(MarchRow[3]).mobile
    /\ \A n \in 1..Len(attendance) : attendance[n].member_mobile # F(MarchRow[3]).mobile
    /\ \A n \in 1..Len(manualReview) : rawRows[manualReview[n].row_index] # MarchRow

\* C20: whenever the identity key of a Member is a freshly generated token, its
\* mobile and its mobileNormalized are both the 'NA' sentinel.
C20_NoMobileIsNA ==
    \A k \in 1..Len(membersMap) :
        membersMap[k].id \in UUIDS =>
            membersMap[k].mobile = NA /\ membersMap[k].mobileNormalized = NA


\* the row the loop is about to read is merged into the member at position k
MergesInto(k) ==
    /\ pc = "rows" /\ r < Len(rawRows)
    /\ ~IsSkippedRow(rawRows, r, ctx.columnHeaderRowIndex)
    /\ ~IsEmptyExtract(Extracted(r))
    /\ k \in 1..Len(membersMap)
    /\ membersMap[k].id = Extracted(r).mobileNormalized

\* C22: in a step of the row loop every member that has a start date keeps it
\* and every member that has a resolved plan keeps its planRaw, planType and
\* planMonths, also when the row merged into it has no plan; a member without
\* a start date or without a plan takes that of the row merged into it.
C22_FirstStartAndPlanKept ==
    [][pc = "rows" /\ r' = r + 1 =>
          \A k \in 1..Len(membersMap) :
              /\ Len(membersMap') >= k
              /\ membersMap[k].startDate # 0 =>
                    membersMap'[k].startDate = membersMap[k].startDate
              /\ membersMap[k].planType # "null" =>
                    /\ membersMap'[k].planRaw = membersMap[k].planRaw
                    /\ membersMap'[k].planType = membersMap[k].planType
                    /\ membersMap'[k].planMonths = membersMap[k].planMonths
              /\ MergesInto(k) =>
                    /\ membersMap[k].startDate = 0 =>
                          membersMap'[k].startDate = Extracted(r).startDate
                    /\ membersMap[k].planType = "null" =>
                          /\ membersMap'[k].planRaw = Extracted(r).planRaw
                          /\ membersMap'[k].planType = Extracted(r).mapped.planType
                          /\ membersMap'[k].planMonths = Extracted(r).mapped.planMonths
    ]_vars

\* a row with another start date and another plan has been merged into a member
\* that keeps its first start date and plan
C22_Witness ==
    /\ pc = "rows" /\ r = Len(rawRows)
    /\ \E k \in 1..Len(membersMap) : \E p, q \in RowsOf(membersMap[k].id) :
          /\ p < q
          /\ Extracted(p).startDate # 0 /\ Extracted(p).planRaw # <<>>
          /\ Extracted(q).startDate \notin {0, Extracted(p).startDate}
          /\ Extracted(q).planRaw \notin {<<>>, Extracted(p).planRaw}
          /\ membersMap[k].startDate = Extracted(p).startDate
          /\ membersMap[k].planRaw = Extracted(p).planRaw
          /\ membersMap[k].planType = Extracted(p).mapped.planType


\* the zero-based rows of the 30-row window below the marker at row idx
WindowOf(idx) == {q \in (idx + 1)..(idx + 30) : q <= Len(rawRows) - 1}

\* the year of the date a cell parses to, or 0
YearOfCell(cell) == F(cell).date[tz] \div 10000

\* C23: the year of every section marker is the 4-digit year of its own row;
\* else that of the first parseable date of column 1 in the next 30 rows; else
\* that of the first parseable date of any column in the next 30 rows; else
\* 2023 if the marker is the first one and sits at row index 1; else the year
\* of the previous marker; else the current year.  Each source is used only
\* when every earlier one yields nothing.
C23_YearPriority ==
    pc # "idle" =>
      \A h \in 1..Len(ctx.headersWithYear) :
        LET idx    == ctx.headersWithYear[h].row_idx
            year   == ctx.headersWithYear[h].year
            own    == {c \in 1..Len(Row(rawRows, idx)) : F(Row(rawRows, idx)[c]).year # 0}
            inB    == {q \in WindowOf(idx) :
                          /\ Len(Row(rawRows, q)) >= 2
                          /\ YearOfCell(Row(rawRows, q)[2]) # 0}
            dated(q) == {c \in 1..Len(Row(rawRows, q)) : YearOfCell(Row(rawRows, q)[c]) # 0}
            inAny  == {q \in WindowOf(idx) : dated(q) # {}}
            none   == own = {} /\ inB = {} /\ inAny = {}
        IN  /\ own # {} => year = F(Row(rawRows, idx)[Min(own)]).year
            /\ own = {} /\ inB # {} => year = YearOfCell(Row(rawRows, Min(inB))[2])
            /\ own = {} /\ inB = {} /\ inAny # {} =>
                  year = YearOfCell(Row(rawRows, Min(inAny))[Min(dated(Min(inAny)))])
            /\ none /\ h = 1 /\ idx = 1 => year = 2023
            /\ none /\ h > 1 => year = ctx.headersWithYear[h - 1].year
            /\ none /\ h = 1 /\ idx # 1 => year = CurrentYear

\* a marker without a year took the year of the date in column 1 of the second
\* row below it, although the row between them holds a date of another year
C23_Witness ==
    /\ pc = "rows"
    /\ Len(rawRows) = 3
    /\ Len(ctx.headersWithYear) = 1
    /\ ctx.headersWithYear[1].row_idx = 0
    /\ YearOfCell(rawRows[2][1]) \notin {0, 2024}
    /\ ctx.headersWithYear[1].year = 2024


\* C24: the attendance output holds one event per member and date marked
\* present: no two events carry the same mobile and the same date, also when
\* two rows of one mobile are marked in the same date column, while two members
\* marked on the same date have an event each.
C24_OneEventPerPair ==
    Parsed =>
      /\ \A a, b \in 1..Len(attendance) :
            /\ attendance[a].member_mobile # NA
            /\ attendance[a].member_mobile = attendance[b].member_mobile
            /\ attendance[a].attendance_date = attendance[b].attendance_date
            => a = b
      /\ \A j, k \in 1..Len(membersMap) :
            /\ j # k
            /\ membersMap[j].mobileNormalized # NA /\ membersMap[k].mobileNormalized # NA
            => \A d \in Range(membersMap[j].attendance) \cap Range(membersMap[k].attendance) :
                  \E a, b \in 1..Len(attendance) :
                     /\ attendance[a].member_mobile = membersMap[j].id
                     /\ attendance[b].member_mobile = membersMap[k].id
                     /\ attendance[a].attendance_date = d
                     /\ attendance[b].attendance_date = d


\* C26: Members of one parse result with different ids are written to
\* different documents, so that after an import into an empty store the store
\* holds as many documents as the result has Members, also when several
\* Members have no usable mobile.
C26_DistinctDocuments ==
    /\ Parsed =>
          \A j, k \in 1..Len(members) :
              members[j].id # members[k].id =>
                  members[j].mobileNormalized # members[k].mobileNormalized
    /\ pc = "done" /\ imports = 1 => Cardinality(DOMAIN store) = Len(members)


\* C27: every event of the attendance output refers to exactly one Member of
\* the members output, the one whose id is the event's member_mobile, and the
\* attendance that Member was built from holds the event's date; events of rows
\* without a usable mobile included.
C27_EventsReferToMembers ==
    Parsed =>
      \A a \in 1..Len(attendance) :
          /\ Cardinality({k \in 1..Len(members) :
                             members[k].id = attendance[a].member_mobile}) = 1
          /\ \E k \in 1..Len(membersMap) :
                /\ membersMap[k].id = attendance[a].member_mobile
                /\ attendance[a].attendance_date \in Range(membersMap[k].attendance)


\* the columns 1 to 5 of row q that hold a date
DateColumns(q) ==
    {c \in 1..5 : /\ HasCell(Row(rawRows, q), c)
                  /\ F(Cell(Row(rawRows, q), c)).date[tz] # 0}

\* column 0 of row q holds a small positive serial number
HasSerialNumber(q) ==
    /\ Len(Row(rawRows, q)) >= 1
    /\ Cell(Row(rawRows, q), 0).t = "num"
    /\ Cell(Row(rawRows, q), 0).n \in 1..999

\* C29: a data row that starts with a small serial number and holds a valid
\* date in its start-date column gives the date of that column as start date,
\* and the Member created from the row has it: never the serial number read as
\* a spreadsheet date.
C29_StartDateNotSerial ==
    \A q \in FiledRows :
        HasSerialNumber(q) /\ DateColumns(q) # {} =>
            /\ Extracted(q).startDate
                  = F(Cell(Row(rawRows, q), Min(DateColumns(q)))).date[tz]
            /\ Extracted(q).mobileNormalized # <<>>
                  /\ q = Min(RowsOf(Extracted(q).mobileNormalized))
               => Built(Extracted(q).mobileNormalized).startDate
                     = F(Cell(Row(rawRows, q), Min(DateColumns(q)))).date[tz]


\* C21: a read or write that fails for one member does not abort the import:
\* when POST answers success, every member for which no failure was logged is
\* in the store, and the report counts each member once, as created, updated
\* or errored.
C21_FailureIsolated ==
    pc = "done" /\ response = "success" /\ members # <<>> =>
        /\ \A k \in 1..Len(members) :
              (\A n \in 1..Len(log) : log[n].ref # members[k].mobileNormalized)
                 => members[k].mobileNormalized \in DOMAIN store
        /\ report.created + report.updated + Len(report.errors) = Len(members)

\* C28: when two requests that carry the same member have both finished
\* writing, the stored document of every member keyed by a mobile holds the
\* attendance of the imports (the store was empty before), whatever the order
\* of their reads and commits.
C28_ConcurrentUnion ==
    pc = "done" /\ rival.pc = "done" =>
        \A k \in 1..Len(membersMap) :
            membersMap[k].mobileNormalized # NA =>
                /\ membersMap[k].id \in DOMAIN store
                /\ Range(store[membersMap[k].id].attendance)
                      = Range(membersMap[k].attendance)

\* C30: after POST has answered, with success or with 500, the temporary file
\* it wrote for the upload no longer exists.
C30_TempFileRemoved ==
    pc = "done" /\ imports > 0 => ~tempFile


\* C25: a start-date cell that is not empty and not a date never makes a parse
\* throw: parseExcel and parseExcelToStructured alike give the row's Member the
\* start date null and go on.
C25_BadStartDateIsNull ==
    probe.done =>
        /\ ~probe.structured.throws
        /\ ~probe.parseExcel.throws
        /\ Truthy(probe.input) /\ tryParseDate(probe.input, tz) = 0
              => probe.structured.startDate = 0
        /\ Truthy(probe.input) /\ parseExcelDate(probe.input) = 0
              => probe.parseExcel.startDate = 0
====
